---- MODULE Spec2Model ----
(***************************************************************************)
(* Realtime signaling core of ChatApp: the server's push registry          *)
(* (clients), event dispatcher (sendEvent) and call signal queue           *)
(* (callSignals, addCallSignal, getCallSignals) of src/api/index.js, and   *)
(* the call state machine of ChatDashboard in src/client/src/App.jsx.      *)
(*                                                                         *)
(* JavaScript values are encoded as integers: null is NullV, undefined is  *)
(* UndefV, user ids / sdp ids / object handles are positive.  Truthy(x)    *)
(* is the JavaScript truthiness of such a value.  A user name is the id of *)
(* the user; an offer, an answer and a candidate are identified by the id  *)
(* of the event that carries them.  The audio/video flag of a call         *)
(* (isVideoCall, isVideo) and the video elements are left out.             *)
(***************************************************************************)
EXTENDS Integers, Sequences, FiniteSets, TLC

NullV == 0
UndefV == 0 - 1
Truthy(x) == x > 0

\* ------------------------------------------------------------------ bounds
NumUsers == 2
MaxConns == 2
MaxEvents == 2
MaxPosts == 1
MaxDrains == 2
MaxNow == 80000
TickMs == 10000
MaxSignals == 5
MaxPolls == 3
MaxPushed == 3
MaxPushPolls == 2
MaxMedia == 1
MaxIce == 3
MaxLocalIce == 1
MaxErrors == 1
MaxMessages == 2
MaxSends == 2
MaxGets == 3
MaxSince == 4000
MaxTimerPolls == 4
MaxTimerSignals == 2
MaxConnSignals == 3
MaxConnPolls == 2
MaxFailures == 1
MaxDelivers == 2
MaxCapEvents == 52
MaxCapOthers == 2
MaxCapDrains == 1
MaxAuthPosts == 2
MaxAuthDrains == 1

Users == 1..NumUsers
ConnIds == 1..MaxConns

\* ------------------------------------------------------- program constants
SIGNAL_TTL == 60000
MAX_AGE_FOR_READ == 30000
CLEAR_AGE == 30000
READ_CLEAR_AGE == 10000
MAX_SIGNALS == 50

CallTypes == {"call_user", "call_accepted", "ice_candidate", "end_call"}
OtherTypes == {"receive_message", "friend_request", "friend_accepted",
               "group_created", "group_deleted"}

\* String(userId): the decimal rendering of a (single digit) user id.
Digits == <<"1", "2", "3", "4", "5", "6", "7", "8", "9">>
ToStr(n) == Digits[n]
UserKeys == {ToStr(u) : u \in Users}

VARIABLES
  now,          \* Date.now() of the server process
  clients,      \* clients[key]: connection stored for the key, 0 if none
  conn,         \* conn[c]: the response stream of SSE connection c
  sink,         \* sink[c]: frames written to connection c, not yet read
  callSignals,  \* callSignals[key]: the queue of the user
  nextId,       \* number of events posted so far (identity of an event)
  lastSent,     \* dispatches made by the last REST handler (history)
  ev,           \* ev[id]: what became of posted event id (history)
  lastDrain,    \* the call of getCallSignals made by the last step (history)
  drains,       \* number of calls of getCallSignals so far (history)
  lastRes,      \* the response sent by the last step, if any (history)
  st,           \* ChatDashboard: the React state as of the last render
  ref,          \* ChatDashboard: the .current of each ref
  streams,      \* streams[s]: the tracks of MediaStream s are live
  pcs,          \* pcs[p]: RTCPeerConnection p
  tasks,        \* pending promise continuations of callUser / answerCall
  timers,       \* pending setTimeout(..., 3000) callbacks of endCallCleanup
  es,           \* the connection behind eventSourceRef.current, 0 if none
  sse,          \* the EventSource and the reconnect state of connectSSE
  chat,         \* the message list, its requests and the messages table
  poll,         \* the call polling loop (pollCalls)
  peer,         \* peer[p]: the call state of the client of user p
  ended         \* the local stream of the call that an end_call event
                \* found established, 0 if none (history)

serverVars == <<now, clients, conn, sink, callSignals>>
histVars == <<nextId, lastSent, ev, lastDrain, drains, lastRes>>
clientVars ==
  <<st, ref, streams, pcs, tasks, timers, es, sse, chat, poll, peer,
    ended>>
vars == <<serverVars, histVars, clientVars>>

\* ---------------------------------------------------------------- sendEvent
\* The frame written to the push channel: {type, message: data, data: data}.
EventPayload(type, data) == [type |-> type, message |-> data, data |-> data]

\* Every key format tried by sendEvent names the same property of the
\* clients object, String(uid).
SendEventKey(uid) == ToStr(uid)

SendEventTarget(cl, uid) == cl[SendEventKey(uid)]

\* target.write(eventString) throws when the stream is broken.
SendEventOk(cl, cn, uid) ==
  /\ SendEventTarget(cl, uid) # 0
  /\ ~cn[SendEventTarget(cl, uid)].broken

\* Mutant: a connection whose write threw stays stored.
SendEventClientsKeep(cl, cn, uid) == cl

\* keysToTry.forEach(key => delete clients[key]) in the catch.
SendEventClients(cl, cn, uid) ==
  IF SendEventTarget(cl, uid) # 0 /\ cn[SendEventTarget(cl, uid)].broken
    THEN [cl EXCEPT ![SendEventKey(uid)] = 0]
    ELSE cl

SendEventSink(sk, cl, cn, uid, type, data) ==
  IF SendEventOk(cl, cn, uid)
    THEN [sk EXCEPT ![SendEventTarget(cl, uid)] =
                       Append(@, EventPayload(type, data))]
    ELSE sk

\* What the dispatch did, for the history variable lastSent.
SendEventOutcome(cl, cn, uid) ==
  IF SendEventTarget(cl, uid) = 0 THEN "none"
  ELSE IF cn[SendEventTarget(cl, uid)].broken THEN "failed" ELSE "written"

\* ------------------------------------------------------------ addCallSignal
\* Mutant: every user id is mapped to the same queue key.
CallSignalKeyShared(userId) == ToStr(1)

CallSignalKey(userId) == ToStr(userId)

\* Mutant: slice(0, 50), the oldest entries are the ones kept.
FirstN(q, n) == IF Len(q) > n THEN SubSeq(q, 1, n) ELSE q

\* slice(-50)
LastN(q, n) == IF Len(q) > n THEN SubSeq(q, Len(q) - n + 1, Len(q)) ELSE q

SignalWithTimestamp(signal, t) ==
  [type |-> signal.type, data |-> signal.data, id |-> signal.id,
   timestamp |-> t, read |-> FALSE, readAt |-> UndefV]

\* Mutant: unshift instead of push.
PushSignalFront(q, s) == <<s>> \o q

PushSignal(q, s) == Append(q, s)

AddCallSignal(cs, userId, signal, t) ==
  [cs EXCEPT ![CallSignalKey(userId)] =
     LastN(PushSignal(@, SignalWithTimestamp(signal, t)), MAX_SIGNALS)]

\* ----------------------------------------------------------- getCallSignals
\* Mutant: the TTL filter uses the 30 s clear age.
NotExpiredShort(s, t) == (t - s.timestamp) < CLEAR_AGE

NotExpired(s, t) == (t - s.timestamp) < SIGNAL_TTL

FilterExpired(q, t) == SelectSeq(q, LAMBDA s : NotExpired(s, t))

Unread(s) == ~s.read

\* Mutant: readAt is recorded but the read flag is not set.
MarkReadNoFlag(s, t) ==
  IF Unread(s) /\ (t - s.timestamp) < MAX_AGE_FOR_READ
    THEN [s EXCEPT !.readAt = t]
    ELSE s

MarkRead(s, t) ==
  IF Unread(s) /\ (t - s.timestamp) < MAX_AGE_FOR_READ
    THEN [s EXCEPT !.read = TRUE, !.readAt = t]
    ELSE s

\* s.readAt || s.timestamp
ReadAtOrTimestamp(s) == IF Truthy(s.readAt) THEN s.readAt ELSE s.timestamp

\* Mutant: read signals are kept as long as unread ones.
KeepReadLong(s, t) ==
  IF s.read THEN (t - ReadAtOrTimestamp(s)) < CLEAR_AGE
            ELSE (t - s.timestamp) < CLEAR_AGE

Keep(s, t) ==
  IF s.read THEN (t - ReadAtOrTimestamp(s)) < READ_CLEAR_AGE
            ELSE (t - s.timestamp) < CLEAR_AGE

\* The array returned: the unread signals that survived the TTL filter (the
\* same objects that are then marked, so they are serialised as marked).
UnreadSignals(q, t) ==
  LET u == SelectSeq(FilterExpired(q, t), Unread)
  IN  [i \in 1..Len(u) |-> MarkRead(u[i], t)]

\* The queue left behind.
RemainingSignals(q, t) ==
  LET f == FilterExpired(q, t)
      m == [i \in 1..Len(f) |-> MarkRead(f[i], t)]
  IN  SelectSeq(m, LAMBDA s : Keep(s, t))

GetCallSignalsQueue(cs, userId, t) ==
  [cs EXCEPT ![CallSignalKey(userId)] = RemainingSignals(@, t)]

GetCallSignalsResult(cs, userId, t) ==
  UnreadSignals(cs[CallSignalKey(userId)], t)

\* sendEvent applied to each element of an array of user ids in turn
\* (forEach, or two consecutive calls).  Returns the registry, the sinks and
\* the history of what each call did.
RECURSIVE SendEventSeq(_, _, _, _, _, _, _, _)
SendEventSeq(cl, sk, cn, targets, type, data, id, route) ==
  IF targets = <<>> THEN [cl |-> cl, sk |-> sk, sent |-> {}]
  ELSE LET uid == Head(targets)
           rest == SendEventSeq(SendEventClients(cl, cn, uid),
                                SendEventSink(sk, cl, cn, uid, type, data),
                                cn, Tail(targets), type, data, id, route)
       IN  [rest EXCEPT !.sent = @ \cup
              {[uid |-> uid, type |-> type, id |-> id, route |-> route,
                outcome |-> SendEventOutcome(cl, cn, uid)]}]

\* An array holding the elements of a set of user ids, in ascending order.
RECURSIVE ArrayOf(_)
ArrayOf(S) ==
  IF S = {} THEN <<>>
  ELSE LET m == CHOOSE x \in S : \A y \in S : x <= y
       IN  <<m>> \o ArrayOf(S \ {m})

\* --------------------------------------------------------- history helpers
NoConn == [user |-> 0, open |-> FALSE, broken |-> FALSE, timer |-> FALSE]

\* History of one posted event: the user it was enqueued for (0 if it was
\* not enqueued), whether that user has drained since, whether the first such
\* drain came less than 60 s after the enqueue and whether it returned the
\* event, how many drains returned it, whether a drain returned it 60 s or
\* more after the enqueue, and whether a drain dropped it, never returned,
\* less than 60 s after the enqueue.
NewEv(uid) ==
  [uid |-> uid, polled |-> FALSE, firstYoung |-> FALSE, firstGot |-> FALSE,
   returned |-> 0, late |-> FALSE, lost |-> FALSE]

NoDrain == [uid |-> 0, ids |-> <<>>]

\* A response: the HTTP status, and whether the request carried a token
\* that jwt.verify accepts.  Status 0: the step sent no response.
Res(cred, status) == [cred |-> cred, status |-> status]
NoRes == Res(TRUE, 0)

LogPostAs(uid, res) ==
  /\ ev' = Append(ev, NewEv(uid))
  /\ lastDrain' = NoDrain
  /\ lastRes' = res
  /\ UNCHANGED drains

\* res.json({ success: true }) at the end of a handler.
LogPost(uid) == LogPostAs(uid, Res(TRUE, 200))

NoLogAs(res) ==
  /\ lastSent' = {}
  /\ lastDrain' = NoDrain
  /\ lastRes' = res
  /\ UNCHANGED <<nextId, ev, drains>>

NoLog == NoLogAs(NoRes)

Occurrences(q, x) == Cardinality({i \in 1..Len(q) : q[i] = x})

\* The entry of event i in queue q (i is in q).
EntryOf(q, i) == q[CHOOSE k \in 1..Len(q) : q[k].id = i]

LogDrain(u, ids, before, after) ==
  /\ lastDrain' = [uid |-> u, ids |-> ids]
  /\ drains' = drains + 1
  /\ lastRes' = Res(TRUE, 200)
  /\ ev' = [i \in 1..Len(ev) |->
       LET e == ev[i]
           n == Occurrences(ids, i)
           wasIn == \E k \in 1..Len(before) : before[k].id = i
           isIn == \E k \in 1..Len(after) : after[k].id = i
           young == wasIn /\ (now - EntryOf(before, i).timestamp) < SIGNAL_TTL
           isFirst == e.uid = u /\ ~e.polled
       IN  [uid |-> e.uid,
            polled |-> e.polled \/ e.uid = u,
            firstYoung |-> IF isFirst THEN young ELSE e.firstYoung,
            firstGot |-> IF isFirst THEN n > 0 ELSE e.firstGot,
            returned |-> e.returned + n,
            late |-> e.late \/ (n > 0 /\ ~young),
            lost |-> e.lost \/ (wasIn /\ ~isIn /\ n = 0 /\ e.returned = 0
                                /\ young)]]

\* The REST handlers that only push: sendEvent to each target, no queue.
PushOnly(route, targets, type, data) ==
  LET r == SendEventSeq(clients, sink, conn, targets, type, data,
                        nextId + 1, route)
  IN  /\ clients' = r.cl
      /\ sink' = r.sk
      /\ lastSent' = r.sent
      /\ nextId' = nextId + 1
      /\ LogPost(0)
      /\ UNCHANGED <<now, conn, callSignals>>

\* Mutant: the signal is stored only when the push did not succeed.
PushOrStore(route, target, type, data) ==
  LET r == SendEventSeq(clients, sink, conn, <<target>>, type, data,
                        nextId + 1, route)
  IN  /\ clients' = r.cl
      /\ sink' = r.sk
      /\ lastSent' = r.sent
      /\ callSignals' =
           IF SendEventOk(clients, conn, target) THEN callSignals
           ELSE AddCallSignal(callSignals, target,
                  [type |-> type, data |-> data, id |-> nextId + 1], now)
      /\ LogPost(target)
      /\ nextId' = nextId + 1
      /\ UNCHANGED <<now, conn>>

\* The call endpoints: sendEvent to the target, then addCallSignal.
PushAndStore(route, target, type, data) ==
  LET r == SendEventSeq(clients, sink, conn, <<target>>, type, data,
                        nextId + 1, route)
  IN  /\ clients' = r.cl
      /\ sink' = r.sk
      /\ lastSent' = r.sent
      /\ callSignals' = AddCallSignal(callSignals, target,
                          [type |-> type, data |-> data, id |-> nextId + 1],
                          now)
      /\ LogPost(target)
      /\ nextId' = nextId + 1
      /\ UNCHANGED <<now, conn>>

\* A POST handler that responds before dispatching anything.
Respond(cred, status) ==
  /\ nextId' = nextId + 1
  /\ lastSent' = {}
  /\ LogPostAs(0, Res(cred, status))
  /\ UNCHANGED serverVars

\* return res.json({ success: true }) with nothing dispatched.
Skip == Respond(TRUE, 200)

\* return res.status(400).json({ error: 'Missing required fields' })
MissingFields == Respond(TRUE, 400)

\* ------------------------------------------------------------ GET /api/events
\* Mutant: a connection already stored for the user is kept.
EventsOpenKeepFirst(u, c) ==
  /\ conn[c].user = 0
  /\ conn' = [conn EXCEPT ![c] = [user |-> u, open |-> TRUE,
                                  broken |-> FALSE, timer |-> TRUE]]
  /\ clients' = IF clients[ToStr(u)] = 0
                  THEN [clients EXCEPT ![ToStr(u)] = c]
                  ELSE clients
  /\ NoLog
  /\ UNCHANGED <<now, sink, callSignals>>

\* clients[userIdStr] = res, and the keepAlive interval is started.
EventsOpen(u, c) ==
  /\ conn[c].user = 0
  /\ conn' = [conn EXCEPT ![c] = [user |-> u, open |-> TRUE,
                                  broken |-> FALSE, timer |-> TRUE]]
  /\ clients' = [clients EXCEPT ![ToStr(u)] = c]
  /\ NoLogAs(Res(TRUE, 200))
  /\ UNCHANGED <<now, sink, callSignals>>

\* delete clients[userIdStr] (and the other key formats, the same property)
DeleteClientKeys(cl, u) == [cl EXCEPT ![ToStr(u)] = 0]

\* setInterval(() => res.write(': keepalive') ...) of connection c.
KeepAlive(c) ==
  /\ conn[c].timer
  /\ IF conn[c].broken
       THEN /\ conn' = [conn EXCEPT ![c].timer = FALSE]
            /\ clients' = DeleteClientKeys(clients, conn[c].user)
       ELSE UNCHANGED <<conn, clients>>
  /\ NoLog
  /\ UNCHANGED <<now, sink, callSignals>>

\* req.on('close')
ReqClose(c) ==
  /\ conn[c].open
  /\ conn' = [conn EXCEPT ![c].open = FALSE, ![c].timer = FALSE]
  /\ clients' = DeleteClientKeys(clients, conn[c].user)
  /\ NoLog
  /\ UNCHANGED <<now, sink, callSignals>>

\* req.on('error')
ReqError(c) ==
  /\ conn[c].open
  /\ conn[c].timer
  /\ conn' = [conn EXCEPT ![c].timer = FALSE]
  /\ clients' = DeleteClientKeys(clients, conn[c].user)
  /\ NoLog
  /\ UNCHANGED <<now, sink, callSignals>>

\* The stream of connection c breaks: later writes to it throw.
StreamBreaks(c) ==
  /\ conn[c].open
  /\ ~conn[c].broken
  /\ conn' = [conn EXCEPT ![c].broken = TRUE]
  /\ NoLog
  /\ UNCHANGED <<now, clients, sink, callSignals>>

\* ------------------------------------------------------- the push-only posts
Msg(id, s, r) == [id |-> id, sender |-> s, recipient |-> r]

\* POST /api/message, direct: to the recipient, then to the sender.
PostMessage(s, r) ==
  PushOnly("/api/message", <<r, s>>, "receive_message", Msg(nextId + 1, s, r))

\* POST /api/message, group: to every member.
PostGroupMessage(s, members) ==
  PushOnly("/api/message", ArrayOf(members), "receive_message", Msg(nextId + 1, s, NullV))

\* POST /api/friends/request
FriendRequest(from, to) ==
  /\ from # to
  /\ PushOnly("/api/friends/request", <<to>>, "friend_request", [from |-> from])

\* POST /api/friends/accept
FriendAccept(myId, fromUserId) ==
  PushOnly("/api/friends/accept", <<fromUserId>>,
           "friend_accepted", [fromId |-> myId])

\* POST /api/groups
GroupCreate(adminId, members) ==
  PushOnly("/api/groups", ArrayOf(members \cup {adminId}), "group_created",
           [id |-> nextId + 1])

\* DELETE /api/groups/:id
GroupDelete(members) ==
  PushOnly("/api/groups/:id", ArrayOf(members), "group_deleted", [groupId |-> 1])

\* POST /api/signal: relays any type, push only.
PostSignal(from, to, type) ==
  PushOnly("/api/signal", <<to>>, type, [from |-> from])

\* ---------------------------------------------------------- call endpoints
\* POST /api/calls/initiate
CallUserData(callerId, signalData) ==
  [from |-> callerId, signal |-> signalData, name |-> callerId]

CallsInitiate(callerId, userToCall, signalData) ==
  IF ~Truthy(userToCall) \/ ~Truthy(signalData)
    THEN MissingFields
    ELSE PushAndStore("/api/calls/initiate", userToCall, "call_user",
                      CallUserData(callerId, signalData))

\* POST /api/calls/answer
AnswerData(signal) == [type |-> "answer", sdp |-> signal]

CallsAnswer(answererId, to, signal) ==
  IF ~Truthy(signal) \/ ~Truthy(to)
    THEN MissingFields
    ELSE PushAndStore("/api/calls/answer", to, "call_accepted", AnswerData(signal))

\* POST /api/calls/ice-candidate.  A candidate is {candidate, sdpMid,
\* sdpMLineIndex}: candidate 0 is the empty string, sdpMid 0 is null,
\* sdpMLineIndex is UndefV, NullV or 1 + the media line index.
ValidCandidate(c) ==
  [candidate |-> IF Truthy(c.candidate) THEN c.candidate ELSE 0,
   sdpMid |-> IF Truthy(c.sdpMid) THEN c.sdpMid ELSE NullV,
   sdpMLineIndex |-> IF c.sdpMLineIndex # UndefV THEN c.sdpMLineIndex
                                                 ELSE NullV]

InvalidCandidate(v) ==
  ~Truthy(v.candidate) /\ ~Truthy(v.sdpMid) /\ v.sdpMLineIndex = NullV

CallsIceCandidate(senderId, to, present, candidate) ==
  IF ~Truthy(to) THEN MissingFields
  ELSE IF ~present \/ InvalidCandidate(ValidCandidate(candidate))
    THEN Skip
    ELSE PushAndStore("/api/calls/ice-candidate", to, "ice_candidate",
                      ValidCandidate(candidate))

\* POST /api/calls/end
CallsEnd(senderId, to) ==
  IF Truthy(to)
    THEN PushAndStore("/api/calls/end", to, "end_call", [from |-> senderId])
    ELSE Skip

\* GET /api/calls/poll
SignalIds(q) == [i \in 1..Len(q) |-> q[i].id]

CallsPoll(u) ==
  /\ callSignals' = GetCallSignalsQueue(callSignals, u, now)
  /\ LogDrain(u, SignalIds(GetCallSignalsResult(callSignals, u, now)),
              callSignals[CallSignalKey(u)],
              callSignals'[CallSignalKey(u)])
  /\ lastSent' = {}
  /\ UNCHANGED <<now, clients, conn, sink, nextId>>

\* ------------------------------------------------- the credential checks
\* jwt.sign({ id: user.id, ... }, JWT_SECRET) of the login handler.
JwtSign(u) == 10 * u

\* No token in the request, and a token that jwt.verify rejects (bad
\* signature, malformed or expired).
NoToken == NullV
BadToken == JwtSign(NumUsers) + 1
Tokens == {JwtSign(u) : u \in Users} \cup {NoToken, BadToken}

\* jwt.verify(token, JWT_SECRET) returns.
JwtVerifies(token) == \E u \in Users : JwtSign(u) = token

\* decoded.id
DecodedId(token) == CHOOSE u \in Users : JwtSign(u) = token

\* A GET handler that responds with an error status and does nothing else.
RejectGet(status) ==
  /\ NoLogAs(Res(FALSE, status))
  /\ UNCHANGED serverVars

\* GET /api/events?token=...
EventsRequest(token, c) ==
  /\ conn[c].user = 0
  /\ IF ~Truthy(token) THEN RejectGet(401)
     ELSE IF ~JwtVerifies(token) THEN RejectGet(401)
     ELSE EventsOpen(DecodedId(token), c)

\* GET /api/calls/poll with the token of the Authorization header or of
\* the query.
PollRequest(token) ==
  IF ~Truthy(token) THEN RejectGet(401)
  ELSE IF ~JwtVerifies(token) THEN RejectGet(401)
  ELSE CallsPoll(DecodedId(token))

\* POST /api/calls/initiate
InitiateRequest(token, userToCall, signalData) ==
  IF ~Truthy(token) \/ ~Truthy(userToCall) \/ ~Truthy(signalData)
    THEN Respond(JwtVerifies(token), 400)
  ELSE IF ~JwtVerifies(token) THEN Respond(FALSE, 401)
  ELSE CallsInitiate(DecodedId(token), userToCall, signalData)

\* POST /api/calls/answer
AnswerRequest(token, to, signal) ==
  IF ~Truthy(token) \/ ~Truthy(signal) \/ ~Truthy(to)
    THEN Respond(JwtVerifies(token), 400)
  ELSE IF ~JwtVerifies(token) THEN Respond(FALSE, 401)
  ELSE CallsAnswer(DecodedId(token), to, signal)

\* POST /api/calls/ice-candidate: a request without a candidate is
\* answered { success: true } before the token is verified.
IceCandidateRequest(token, to, present, candidate) ==
  IF ~Truthy(token) \/ ~Truthy(to)
    THEN Respond(JwtVerifies(token), 400)
  ELSE IF ~present THEN Respond(JwtVerifies(token), 200)
  ELSE IF ~JwtVerifies(token) THEN Respond(FALSE, 401)
  ELSE CallsIceCandidate(DecodedId(token), to, present, candidate)

\* POST /api/calls/end
EndRequest(token, to) ==
  IF ~Truthy(token) THEN Respond(FALSE, 400)
  ELSE IF ~JwtVerifies(token) THEN Respond(FALSE, 401)
  ELSE CallsEnd(DecodedId(token), to)

\* POST /api/signal: jwt.verify is outside any try, its exception goes to
\* the default error handler of express.
SignalRequest(token, to, type) ==
  IF ~JwtVerifies(token) THEN Respond(FALSE, 500)
  ELSE PostSignal(DecodedId(token), to, type)

\* Date.now() advances.
Tick ==
  /\ now + TickMs <= MaxNow
  /\ now' = now + TickMs
  /\ NoLog
  /\ UNCHANGED <<clients, conn, sink, callSignals>>

\* --------------------------------------------- the server on its own: SpecQ
Candidate(n) == [candidate |-> n, sdpMid |-> 1, sdpMLineIndex |-> 1]
Malformed == [candidate |-> 0, sdpMid |-> NullV, sdpMLineIndex |-> UndefV]
IceInputs == {Candidate(1), Malformed}

InitServer ==
  /\ now = TickMs
  /\ clients = [k \in UserKeys |-> 0]
  /\ conn = [c \in ConnIds |-> NoConn]
  /\ sink = [c \in ConnIds |-> <<>>]
  /\ callSignals = [k \in UserKeys |-> <<>>]
  /\ nextId = 0
  /\ lastSent = {}
  /\ ev = <<>>
  /\ lastDrain = NoDrain
  /\ drains = 0
  /\ lastRes = NoRes

\* The peers of a post: a sender and a target, two different users.
Pairs == {p \in Users \X Users : p[1] # p[2]}

\* ======================================================================
\* The client: ChatDashboard of src/client/src/App.jsx, mounted for user Me.
\* ======================================================================
Me == 1
Peers == Users \ {Me}

\* callStatus: a text, and the name inside it for '<name> is calling...'.
Status(text) == [text |-> text, name |-> NullV]
IsCalling(name) ==
  IF Truthy(name) THEN [text |-> "is calling...", name |-> name]
                  ELSE Status("Someone is calling...")

\* useState(...) initial values of the call state, and of selectedUser.
InitSt ==
  [callActive |-> FALSE, receivingCall |-> FALSE, caller |-> NullV,
   callerSignal |-> NullV, callStatus |-> Status(""), localStream |-> NullV,
   showCallEnding |-> FALSE, selectedUser |-> NullV]

\* useRef(...) initial values; useRef() holds undefined.
InitRef ==
  [callEndedIntentionallyRef |-> FALSE, callTargetRef |-> NullV,
   connectionRef |-> UndefV, callActiveRef |-> FALSE,
   receivingCallRef |-> FALSE]

\* The two effects with dependency list [token] run once, after the first
\* render: eventSource.onmessage and pollCalls keep the state values (and
\* the endCallCleanup) of that render for as long as the component lives.
EffectClosure == InitSt

\* The client of another user, as far as the server sees it: its phase, the
\* offer it has posted (the id of the call_user event), the candidates it
\* has posted since, and how many of them before this client answered.
IdlePeer == [phase |-> "idle", offer |-> 0, sent |-> <<>>, early |-> 0]

\* The call polling effect has run, up to its first pollCalls():
\* updatePollInterval() has set callPollIntervalRef with the idle period
\* and intervalCheck is set.  `due` and `check` are the ms until
\* callPollIntervalRef and intervalCheck fire, `every` the period of
\* callPollIntervalRef, `since` the ms since pollCalls was last called
\* (history).
InitPoll ==
  [started |-> FALSE, inFlight |-> FALSE, response |-> <<>>, batch |-> <<>>,
   due |-> 2000, every |-> 2000, check |-> 1000, since |-> 0]

\* No EventSource yet, and the variables of the effect that calls
\* connectSSE: let reconnectAttempts = 0, let reconnectTimeout = null.
InitSSE ==
  [readyState |-> "none", reconnectAttempts |-> 0, reconnectTimeout |-> 0]

\* chat.messages is the `messages` state: the id and the timestamp of each
\* entry.  chat.db is the messages table of the server, chat.requests the
\* GET /api/messages requests under way, chat.sends the calls of
\* sendMessage under way, chat.polling whether messagePollInterval runs,
\* chat.lastMessageId the variable of that effect.  chat.applied records
\* which setMessages were given which stored message (history).
InitChat ==
  [messages |-> <<>>, db |-> <<>>, requests |-> {}, sends |-> {},
   polling |-> FALSE, lastMessageId |-> NullV, temps |-> 0, gets |-> 0,
   applied |-> {}]

InitClient ==
  /\ st = InitSt
  /\ ref = InitRef
  /\ streams = <<>>
  /\ pcs = <<>>
  /\ tasks = {}
  /\ timers = 0
  /\ es = 0
  /\ sse = InitSSE
  /\ chat = InitChat
  /\ poll = InitPoll
  /\ peer = [p \in Peers |-> IdlePeer]
  /\ ended = 0

\* The part of the client a handler works on.
Core ==
  [st |-> st, ref |-> ref, streams |-> streams, pcs |-> pcs,
   timers |-> timers]

\* The effects [callActive] and [receivingCall] copy the state into the
\* refs after a render in which the state changed.
SyncRefs(c, old) ==
  [c EXCEPT
     !.ref.callActiveRef =
        IF c.st.callActive # old.callActive THEN c.st.callActive ELSE @,
     !.ref.receivingCallRef =
        IF c.st.receivingCall # old.receivingCall THEN c.st.receivingCall
                                                  ELSE @]

SetCore(c) ==
  LET d == SyncRefs(c, st)
  IN  /\ st' = d.st
      /\ ref' = d.ref
      /\ streams' = d.streams
      /\ pcs' = d.pcs
      /\ timers' = d.timers

\* new RTCPeerConnection(...): handlers are attached, nothing negotiated.
\* iceTo is the `to` the onicecandidate handler posts with; role tells
\* whether callUser or answerCall attached the handlers and render is the
\* callActive, receivingCall and showCallEnding they close over.  ice is
\* iceConnectionState, events the state change events not yet handled,
\* failures the failures reported, restarts the calls of restartIce() and
\* retry the pending setTimeout(..., 1000) of the answerer's handler.
NewPeer(iceTo, role, render) ==
  [closed |-> FALSE, handlers |-> TRUE, local |-> NullV, remote |-> NullV,
   cands |-> <<>>, iceTo |-> iceTo, gathered |-> 0,
   role |-> role, render |-> render, ice |-> "new", events |-> <<>>,
   failures |-> 0, restarts |-> 0, retry |-> 0]

\* connectionRef.current.on... = null
RemoveHandlers(c) ==
  IF Truthy(c.ref.connectionRef)
    THEN [c EXCEPT !.pcs[c.ref.connectionRef].handlers = FALSE]
    ELSE c

\* if (localStream) { getTracks().forEach(stop); setLocalStream(null) }
StopTracks(c, localStream) ==
  IF Truthy(localStream)
    THEN [c EXCEPT !.streams[localStream] = FALSE, !.st.localStream = NullV]
    ELSE c

\* if (connectionRef.current) { close(); connectionRef.current = null }
CloseConnection(c) ==
  IF Truthy(c.ref.connectionRef)
    THEN [c EXCEPT !.pcs[c.ref.connectionRef].closed = TRUE,
                   !.ref.connectionRef = NullV]
    ELSE c

\* The reset done at once, or by the 3 s timeout.
ResetCall(c) ==
  [c EXCEPT !.ref.callActiveRef = FALSE,
            !.ref.receivingCallRef = FALSE,
            !.st.callActive = FALSE,
            !.st.receivingCall = FALSE,
            !.st.callStatus = Status(""),
            !.st.caller = NullV,
            !.st.showCallEnding = FALSE,
            !.ref.callEndedIntentionallyRef = FALSE,
            !.ref.callTargetRef = NullV]

\* endCallCleanup(statusMessage), in a closure whose localStream is given.
EndCallCleanup(c, localStream, statusMessage) ==
  LET c1 == RemoveHandlers(
              [c EXCEPT !.ref.callEndedIntentionallyRef = TRUE])
  IN  IF statusMessage # ""
        THEN LET c2 == [c1 EXCEPT !.st.callStatus = Status(statusMessage),
                                  !.st.showCallEnding = TRUE]
                 c3 == CloseConnection(StopTracks(c2, localStream))
             IN  [c3 EXCEPT !.timers = @ + 1]
        ELSE CloseConnection(StopTracks(ResetCall(c1), localStream))

\* The callback of setTimeout(..., 3000) in endCallCleanup.
CleanupTimeout ==
  /\ timers > 0
  /\ poll.batch = <<>>
  /\ SetCore([ResetCall(Core) EXCEPT !.timers = @ - 1])
  /\ UNCHANGED <<tasks, es, sse, chat, poll, peer>>
  /\ NoLog
  /\ UNCHANGED serverVars
  /\ UNCHANGED ended

\* ------------------------------------------------- handlers of call events
\* obj.field of a parsed JSON object, where the value is a number or a
\* string: undefined when the object has no such property.
Field(obj, f) == IF f \in DOMAIN obj THEN obj[f] ELSE UndefV

\* obj.field where the value is an object: <<value>>, or <<>> when the
\* object has no such property.
ObjField(obj, f) == IF f \in DOMAIN obj THEN <<obj[f]>> ELSE <<>>

\* The call_user branch, reading callActive, receivingCall and caller from
\* `closure` and the event's fields from d (the parsed frame for
\* eventSource.onmessage, signal.data for pollCalls).
OnCallUser(c, closure, d) ==
  LET hasActiveConnection ==
        c.ref.connectionRef # NullV /\ closure.callActive
      isActuallyReceiving ==
        closure.receivingCall /\ closure.caller # NullV
          /\ ~closure.callActive
      callerId == Field(d, "from")
      callerName == Field(d, "name")
  IN  IF hasActiveConnection \/ isActuallyReceiving THEN c
      ELSE [c EXCEPT !.ref.callTargetRef = callerId,
                     !.ref.receivingCallRef = TRUE,
                     !.st.receivingCall = TRUE,
                     !.st.caller = callerId,
                     !.st.callerSignal = Field(d, "signal"),
                     !.st.callStatus = IsCalling(callerName)]

\* pc.setRemoteDescription(new RTCSessionDescription(desc)) with an answer:
\* desc is <<>> for undefined.  The description is applied when it is an
\* answer and the connection is open and has a local offer and no remote
\* description yet; otherwise the constructor throws or the promise rejects.
IsAnswer(d) == "type" \in DOMAIN d /\ "sdp" \in DOMAIN d /\ d.type = "answer"

SetRemoteAnswer(pc, desc) ==
  IF /\ desc # <<>>
     /\ IsAnswer(desc[1])
     /\ ~pc.closed /\ Truthy(pc.local) /\ ~Truthy(pc.remote)
    THEN [pc EXCEPT !.remote = desc[1].sdp]
    ELSE pc

\* Mutant: a call_accepted also marks the call active.
OnCallAcceptedActivates(c, desc) ==
  LET c1 == [c EXCEPT !.st.callStatus = Status("Call in progress"),
                      !.st.callActive = TRUE]
  IN  IF Truthy(c1.ref.connectionRef)
        THEN [c1 EXCEPT !.pcs[c1.ref.connectionRef] =
                           SetRemoteAnswer(@, desc)]
        ELSE c1

\* The call_accepted branch; desc is data.signal for eventSource.onmessage
\* and signal.data for pollCalls.
OnCallAccepted(c, desc) ==
  LET c1 == [c EXCEPT !.st.callStatus = Status("Call in progress")]
  IN  IF Truthy(c1.ref.connectionRef)
        THEN [c1 EXCEPT !.pcs[c1.ref.connectionRef] =
                           SetRemoteAnswer(@, desc)]
        ELSE c1

\* pc.addIceCandidate(new RTCIceCandidate(cand)): the constructor throws
\* when sdpMid and sdpMLineIndex are both null, and the promise rejects
\* when the connection is closed or has no remote description.
AddIceCandidate(pc, cand) ==
  IF /\ ~(~Truthy(cand.sdpMid) /\ cand.sdpMLineIndex = NullV)
     /\ ~pc.closed /\ Truthy(pc.remote)
    THEN [pc EXCEPT !.cands = Append(@, cand.candidate)]
    ELSE pc

\* !cand.candidate && !cand.sdpMid && cand.sdpMLineIndex === undefined
InvalidFormat(cand) ==
  /\ ~Truthy(Field(cand, "candidate"))
  /\ ~Truthy(Field(cand, "sdpMid"))
  /\ Field(cand, "sdpMLineIndex") = UndefV

\* The ice_candidate branch; cand is data.candidate for
\* eventSource.onmessage and signal.data for pollCalls.
OnIceCandidate(c, cand) ==
  IF Truthy(c.ref.connectionRef) /\ cand # <<>>
    THEN IF InvalidFormat(cand[1]) THEN c
         ELSE [c EXCEPT !.pcs[c.ref.connectionRef] =
                           AddIceCandidate(@, cand[1])]
    ELSE c

\* The end_call branch without the status message: the call is reset at
\* once and nothing is shown.
OnEndCallSilent(c, closure) ==
  EndCallCleanup(RemoveHandlers(c), closure.localStream, "")

\* The end_call branch, reading callActive and receivingCall from `closure`
\* and calling the endCallCleanup of that closure.
OnEndCall(c, closure) ==
  LET isCurrentlyCaller == closure.callActive /\ ~closure.receivingCall
      isCurrentlyReceiver == closure.receivingCall /\ ~closure.callActive
      statusMessage ==
        IF isCurrentlyReceiver /\ ~closure.callActive
          THEN "Call declined by caller"
          ELSE "Call ended by other party"
      c1 == [c EXCEPT !.ref.callEndedIntentionallyRef = TRUE,
                      !.st.showCallEnding = TRUE,
                      !.st.callStatus = Status(statusMessage)]
  IN  EndCallCleanup(RemoveHandlers(c1), closure.localStream, statusMessage)

\* eventSource.onmessage on a parsed frame {type, message, data}.
OnMessage(c, closure, data) ==
  CASE data.type = "call_user" -> OnCallUser(c, closure, data)
    [] data.type = "call_accepted" ->
         OnCallAccepted(c, ObjField(data, "signal"))
    [] data.type = "ice_candidate" ->
         OnIceCandidate(c, ObjField(data, "candidate"))
    [] data.type = "end_call" -> OnEndCall(c, closure)
    [] OTHER -> c

\* The body of signals.forEach in pollCalls on one signal {type, data, ...}.
OnSignal(c, closure, signal) ==
  CASE signal.type = "call_user" -> OnCallUser(c, closure, signal.data)
    [] signal.type = "call_accepted" -> OnCallAccepted(c, <<signal.data>>)
    [] signal.type = "ice_candidate" -> OnIceCandidate(c, <<signal.data>>)
    [] signal.type = "end_call" -> OnEndCall(c, closure)
    [] OTHER -> c

\* ------------------------------------------------- the peers of the client
\* A peer runs the same client: it calls when idle, answers when ringing,
\* gathers candidates once it has posted an offer or an answer, and hangs
\* up or declines when not idle.

\* Peer p calls the client: its callUser posts the offer.
PeerInitiate(p) ==
  /\ peer[p].phase = "idle"
  /\ CallsInitiate(p, Me, nextId + 1)
  /\ peer' = [peer EXCEPT ![p] = [IdlePeer EXCEPT !.phase = "calling",
                                                  !.offer = nextId + 1]]
  /\ UNCHANGED <<st, ref, streams, pcs, tasks, timers, es, sse, chat, poll>>
  /\ UNCHANGED ended

\* Peer p answers: its answerCall posts the answer.
PeerAnswer(p) ==
  /\ peer[p].phase = "ringing"
  /\ CallsAnswer(p, Me, nextId + 1)
  /\ peer' = [peer EXCEPT ![p].phase = "active"]
  /\ UNCHANGED <<st, ref, streams, pcs, tasks, timers, es, sse, chat, poll>>
  /\ UNCHANGED ended

\* The connection of peer p gathers a candidate: its onicecandidate posts
\* it.  The candidate is early when the client has answered no call yet.
PeerIceCandidate(p) ==
  /\ peer[p].phase \in {"calling", "active"}
  /\ Len(peer[p].sent) < MaxIce
  /\ CallsIceCandidate(p, Me, TRUE, Candidate(nextId + 1))
  /\ peer' = [peer EXCEPT
       ![p].sent = Append(@, nextId + 1),
       ![p].early = IF ~st.callActive /\ @ = Len(peer[p].sent)
                      THEN @ + 1 ELSE @]
  /\ UNCHANGED <<st, ref, streams, pcs, tasks, timers, es, sse, chat, poll>>
  /\ UNCHANGED ended

\* Peer p hangs up or declines: its leaveCall posts end_call.
PeerEnd(p) ==
  /\ peer[p].phase # "idle"
  /\ CallsEnd(p, Me)
  /\ peer' = [peer EXCEPT ![p] = IdlePeer]
  /\ UNCHANGED <<st, ref, streams, pcs, tasks, timers, es, sse, chat, poll>>
  /\ UNCHANGED ended

\* What the posts of this client do to the client of user `to`.
Rings(to) ==
  IF to \in Peers /\ peer[to].phase = "idle"
    THEN [peer EXCEPT ![to].phase = "ringing"] ELSE peer

Answered(to) ==
  IF to \in Peers /\ peer[to].phase = "calling"
    THEN [peer EXCEPT ![to].phase = "active"] ELSE peer

Ended(to) ==
  IF to \in Peers THEN [peer EXCEPT ![to] = IdlePeer] ELSE peer

\* ------------------------------------------------------- the message list
\* The entry of a stored message: the table assigns ids and timestamps in
\* the same order.
Entry(m) == [id |-> m.id, timestamp |-> m.id]

\* `temp-${Date.now()}` of the k-th call of sendMessage, and its entry,
\* stamped by the clock of the client.
TempBase == 100

TempEntry(k) == [id |-> TempBase + k, timestamp |-> nextId]

\* prev.some(m => String(m._id || m.id) === String(id))
Exists(list, id) == \E k \in 1..Len(list) : list[k].id = id

\* Array.prototype.sort by timestamp, which is stable.
Insert(sorted, m) ==
  LET k == Cardinality({i \in 1..Len(sorted) :
                          sorted[i].timestamp <= m.timestamp})
  IN  SubSeq(sorted, 1, k) \o <<m>> \o SubSeq(sorted, k + 1, Len(sorted))

RECURSIVE SortByTimestamp(_)
SortByTimestamp(list) ==
  IF list = <<>> THEN <<>>
  ELSE Insert(SortByTimestamp(SubSeq(list, 1, Len(list) - 1)),
              list[Len(list)])

\* The receive_message branch without its test for an existing entry.
ReceiveMessageUnchecked(messages, m) == SortByTimestamp(Append(messages, m))

\* setMessages of the receive_message branch of eventSource.onmessage.
ReceiveMessage(messages, m) ==
  IF Exists(messages, m.id) THEN messages
  ELSE SortByTimestamp(Append(messages, m))

\* The Map of the fetch: one value per id, in the order of first insertion.
RECURSIVE MapValues(_)
MapValues(list) ==
  IF list = <<>> THEN <<>>
  ELSE LET front == MapValues(SubSeq(list, 1, Len(list) - 1))
           m == list[Len(list)]
       IN  IF Exists(front, m.id) THEN front ELSE Append(front, m)

\* setMessages of the fetch made when a conversation is selected.
MergeFetched(messages, fetched) ==
  SortByTimestamp(MapValues(messages \o fetched))

\* setMessages of pollMessages.
AddLatest(messages, latest) ==
  IF Exists(messages, latest.id) THEN messages ELSE Append(messages, latest)

\* setMessages of sendMessage when the response has arrived: the temporary
\* entry is removed and the stored message is added or replaced.
Acknowledge(messages, temp, m) ==
  LET filtered == SelectSeq(messages, LAMBDA x : x.id # temp)
  IN  IF Exists(filtered, m.id)
        THEN [k \in 1..Len(filtered) |->
                IF filtered[k].id = m.id THEN m ELSE filtered[k]]
        ELSE Append(filtered, m)

\* Message.find of GET /api/messages/:u1/:u2, ascending.
Conversation(db, u1, u2) ==
  SelectSeq(db, LAMBDA m : \/ m.sender = u1 /\ m.recipient = u2
                           \/ m.sender = u2 /\ m.recipient = u1)

Request(kind, with, n) ==
  [kind |-> kind, with |-> with, n |-> n, served |-> FALSE, result |-> <<>>]

\* ------------------------------------------------------- the user's actions
\* A step of the client alone: the server is left as it is.
ClientOnly ==
  /\ NoLog
  /\ UNCHANGED serverVars

\* No handler is running: signals.forEach of pollCalls runs to completion.
Ready == poll.batch = <<>>

\* A pending continuation: getUserMedia(...).then/.catch of callUser or
\* answerCall (kind "gum"), createOffer().then ("offer") or
\* createAnswer().then ("answer"), with what its closure holds: the id the
\* call is placed to or answered for, the offer being answered, and the
\* localStream and the call flags of the render that started it.
Task(kind, role, pc, to, signal, localStream, render) ==
  [kind |-> kind, role |-> role, pc |-> pc, to |-> to, signal |-> signal,
   localStream |-> localStream, render |-> render]

\* callActive, receivingCall and showCallEnding as a render holds them.
Render(s) ==
  [callActive |-> s.callActive, receivingCall |-> s.receivingCall,
   showCallEnding |-> s.showCallEnding]

GumStarted == Len(streams) + Cardinality({t \in tasks : t.kind = "gum"})

\* A contact is clicked: setSelectedUser(u).  The effects of the next
\* render fetch the conversation and start messagePollInterval unless the
\* EventSource is open.
SelectUser(u) ==
  /\ Ready
  /\ st.selectedUser # u
  /\ st' = [st EXCEPT !.selectedUser = u]
  /\ chat' = [chat EXCEPT
       !.requests = @ \cup {Request("fetch", u, chat.gets + 1)},
       !.gets = @ + 1,
       !.polling = ~(sse.readyState = "open"),
       !.lastMessageId = NullV]
  /\ UNCHANGED <<ref, streams, pcs, tasks, timers, es, sse, poll, peer>>
  /\ ClientOnly
  /\ UNCHANGED ended

\* callUser(videoEnabled), up to the call of getUserMedia.  The call
\* buttons are rendered when !callActive && !receivingCall && selectedUser.
CallUser ==
  /\ Ready
  /\ ~st.callActive /\ ~st.receivingCall /\ Truthy(st.selectedUser)
  /\ GumStarted < MaxMedia
  /\ SetCore([Core EXCEPT !.ref.callTargetRef = st.selectedUser,
                          !.st.callActive = TRUE,
                          !.st.callStatus = Status("Calling...")])
  /\ tasks' = tasks \cup {Task("gum", "caller", 0, st.selectedUser, NullV,
                               st.localStream, Render(st))}
  /\ UNCHANGED <<es, sse, chat, poll, peer>>
  /\ ClientOnly
  /\ ended' = 0

\* answerCall(), up to the call of getUserMedia.  The Answer button is
\* rendered when receivingCall && !callActive && !showCallEnding.
AnswerCall ==
  /\ Ready
  /\ st.receivingCall /\ ~st.callActive /\ ~st.showCallEnding
  /\ GumStarted < MaxMedia
  /\ SetCore([Core EXCEPT !.ref.callActiveRef = TRUE,
                          !.ref.receivingCallRef = FALSE,
                          !.st.callActive = TRUE,
                          !.st.receivingCall = FALSE,
                          !.st.callStatus = Status("Call in progress")])
  /\ tasks' = tasks \cup {Task("gum", "answer", 0, st.caller,
                               st.callerSignal, st.localStream, Render(st))}
  /\ UNCHANGED <<es, sse, chat, poll, peer>>
  /\ ClientOnly
  /\ ended' = 0

\* A rejection of getUserMedia that only alerts.
GumFailAlertOnly(t) ==
  /\ Ready
  /\ t.kind = "gum"
  /\ tasks' = tasks \ {t}
  /\ UNCHANGED <<st, ref, streams, pcs, timers, es, sse, chat, poll, peer>>
  /\ ClientOnly
  /\ UNCHANGED ended

\* getUserMedia rejects: alert, endCallCleanup().
GumFail(t) ==
  /\ Ready
  /\ t.kind = "gum"
  /\ SetCore(EndCallCleanup(Core, t.localStream, ""))
  /\ tasks' = tasks \ {t}
  /\ UNCHANGED <<es, sse, chat, poll, peer>>
  /\ ClientOnly
  /\ UNCHANGED ended

\* The stream is stored, the peer connection is created and stored in
\* connectionRef.
WithPeer(c, t) ==
  [c EXCEPT !.streams = Append(@, TRUE),
            !.st.localStream = Len(c.streams) + 1,
            !.pcs = Append(@, NewPeer(t.to, t.role, t.render)),
            !.ref.connectionRef = Len(c.pcs) + 1]

\* getUserMedia resolves in callUser: createOffer() is called.
GumOkCaller(t) ==
  /\ Ready
  /\ t.kind = "gum" /\ t.role = "caller"
  /\ SetCore(WithPeer(Core, t))
  /\ tasks' = (tasks \ {t}) \cup
       {Task("offer", "caller", Len(pcs) + 1, t.to, NullV, t.localStream,
             t.render)}
  /\ UNCHANGED <<es, sse, chat, poll, peer>>
  /\ ClientOnly
  /\ UNCHANGED ended

\* getUserMedia resolves in answerCall: the stored offer is set as remote
\* description and createAnswer() is called.  With no stored offer,
\* new RTCSessionDescription(undefined) throws into the .catch (alert,
\* endCallCleanup()) or, where the constructor accepts it, both
\* setRemoteDescription and createAnswer reject and nothing follows.
GumOkAnswer(t, throws) ==
  /\ Ready
  /\ t.kind = "gum" /\ t.role = "answer"
  /\ LET c == WithPeer(Core, t)
         p == Len(pcs) + 1
     IN  IF Truthy(t.signal)
           THEN /\ ~throws
                /\ SetCore([c EXCEPT !.pcs[p].remote = t.signal])
                /\ tasks' = (tasks \ {t}) \cup
                     {Task("answer", "answer", p, t.to, t.signal,
                           t.localStream, t.render)}
           ELSE /\ SetCore(IF throws
                             THEN EndCallCleanup(c, t.localStream, "")
                             ELSE c)
                /\ tasks' = tasks \ {t}
  /\ UNCHANGED <<es, sse, chat, poll, peer>>
  /\ ClientOnly
  /\ UNCHANGED ended

\* createOffer() resolves in callUser: setLocalDescription(offer) and
\* POST /api/calls/initiate.  On a closed connection createOffer rejects
\* and nothing follows.  The offer is identified by the id of its event.
CreateOfferThen(t) ==
  /\ Ready
  /\ t.kind = "offer"
  /\ tasks' = tasks \ {t}
  /\ UNCHANGED <<st, ref, streams, timers, es, sse, chat, poll>>
  /\ IF pcs[t.pc].closed
       THEN UNCHANGED <<pcs, peer>> /\ ClientOnly
       ELSE /\ pcs' = [pcs EXCEPT ![t.pc].local = nextId + 1]
            /\ CallsInitiate(Me, t.to, nextId + 1)
            /\ peer' = Rings(t.to)
  /\ UNCHANGED ended

\* createAnswer() resolves in answerCall: setLocalDescription(answer) and
\* POST /api/calls/answer with to: caller; a 400 response runs the .catch
\* (alert, endCallCleanup()).
CreateAnswerThen(t) ==
  /\ Ready
  /\ t.kind = "answer"
  /\ tasks' = tasks \ {t}
  /\ UNCHANGED <<es, sse, chat, poll>>
  /\ IF pcs[t.pc].closed
       THEN UNCHANGED <<st, ref, streams, pcs, timers, peer>> /\ ClientOnly
       ELSE /\ LET c == [Core EXCEPT !.pcs[t.pc].local = nextId + 1]
              IN  SetCore(IF Truthy(t.to)
                            THEN c
                            ELSE EndCallCleanup(c, t.localStream, ""))
            /\ CallsAnswer(Me, t.to, nextId + 1)
            /\ peer' = Answered(t.to)
  /\ UNCHANGED ended

\* callTargetRef.current || selectedUser?._id || selectedUser?.id || caller
OtherId ==
  IF Truthy(ref.callTargetRef) THEN ref.callTargetRef
  ELSE IF Truthy(st.selectedUser) THEN st.selectedUser
  ELSE st.caller

\* leaveCall(): the Decline button is rendered when receivingCall &&
\* !callActive && !showCallEnding, the End button when callActive &&
\* !showCallEnding.
LeaveCall ==
  /\ Ready
  /\ (st.callActive \/ st.receivingCall) /\ ~st.showCallEnding
  /\ LET isReceiver == st.receivingCall /\ ~st.callActive
         statusMessage == IF isReceiver THEN "Call declined"
                                        ELSE "Call ended"
     IN  SetCore(EndCallCleanup(Core, st.localStream, statusMessage))
  /\ UNCHANGED <<tasks, es, sse, chat, poll>>
  /\ IF Truthy(OtherId)
       THEN CallsEnd(Me, OtherId) /\ peer' = Ended(OtherId)
       ELSE ClientOnly /\ UNCHANGED peer
  /\ UNCHANGED ended

\* peer.onicecandidate of connection p with a candidate: POST
\* /api/calls/ice-candidate with the `to` of the handler's closure.
OnIceCandidateEvent(p) ==
  /\ Ready
  /\ pcs[p].handlers /\ ~pcs[p].closed /\ Truthy(pcs[p].local)
  /\ pcs[p].gathered < MaxLocalIce
  /\ pcs' = [pcs EXCEPT ![p].gathered = @ + 1]
  /\ UNCHANGED <<st, ref, streams, tasks, timers, es, sse, chat, poll, peer>>
  /\ CallsIceCandidate(Me, pcs[p].iceTo, TRUE, Candidate(nextId + 1))
  /\ UNCHANGED ended

\* --------------------------------------- connection state change handlers
\* The states the handlers have a branch for, apart from those that leave
\* the status as it is ('connecting', 'checking', 'closed').
StateInputs == {"connected", "disconnected", "failed"}

\* The ICE agent of connection p reaches a new state: the browser queues
\* iceconnectionstatechange and then connectionstatechange.
IceStateChanges(p, state) ==
  /\ Ready
  /\ ~pcs[p].closed /\ Truthy(pcs[p].local) /\ Truthy(pcs[p].remote)
  /\ pcs[p].events = <<>>
  /\ pcs[p].ice # state
  /\ pcs' = [pcs EXCEPT
       ![p].ice = state,
       ![p].events = <<"iceconnectionstatechange", "connectionstatechange">>,
       ![p].failures = IF state = "failed" THEN @ + 1 ELSE @]
  /\ UNCHANGED <<st, ref, streams, tasks, timers, es, sse, chat, poll, peer>>
  /\ ClientOnly
  /\ UNCHANGED ended

\* peer.connectionState / peer.iceConnectionState as a handler reads it.
StateOf(pc) == IF pc.closed THEN "closed" ELSE pc.ice

\* (callActive || receivingCall) && !callEndedIntentionallyRef.current &&
\* !showCallEnding, with the flags of the render that made the handler.
StillActive(c, pc) ==
  /\ pc.render.callActive \/ pc.render.receivingCall
  /\ ~c.ref.callEndedIntentionallyRef
  /\ ~pc.render.showCallEnding

\* An onconnectionstatechange that does not look at
\* callEndedIntentionallyRef.
ConnectionStateChangeUnflagged(c, p) ==
  LET pc == c.pcs[p]
  IN  CASE StateOf(pc) = "connected" ->
             [c EXCEPT !.st.callStatus = Status("Call in progress")]
        [] StateOf(pc) = "disconnected" ->
             [c EXCEPT !.st.callStatus = Status("Connection lost...")]
        [] StateOf(pc) = "failed" ->
             [c EXCEPT !.st.callStatus =
                          Status("Connection failed - trying to reconnect..."),
                       !.pcs[p].restarts = @ + 1]
        [] OTHER -> c

\* peer.onconnectionstatechange of callUser and of answerCall.
ConnectionStateChange(c, p) ==
  LET pc == c.pcs[p]
  IN  IF c.ref.callEndedIntentionallyRef \/ pc.render.showCallEnding THEN c
      ELSE CASE StateOf(pc) = "connected" ->
                  [c EXCEPT !.st.callStatus = Status("Call in progress")]
             [] StateOf(pc) = "disconnected" ->
                  IF StillActive(c, pc)
                    THEN [c EXCEPT !.st.callStatus =
                                      Status("Connection lost...")]
                    ELSE c
             [] StateOf(pc) = "failed" ->
                  IF StillActive(c, pc)
                    THEN [c EXCEPT
                            !.st.callStatus = Status(
                               "Connection failed - trying to reconnect..."),
                            !.pcs[p].restarts = @ + 1]
                    ELSE c
             [] OTHER -> c

\* peer.oniceconnectionstatechange: callUser's handler calls restartIce()
\* at once, answerCall's from a setTimeout(..., 1000).
IceConnectionStateChange(c, p) ==
  LET pc == c.pcs[p]
  IN  IF c.ref.callEndedIntentionallyRef \/ pc.render.showCallEnding THEN c
      ELSE CASE StateOf(pc) = "connected" ->
                  [c EXCEPT !.st.callStatus = Status("Call in progress")]
             [] StateOf(pc) = "disconnected" ->
                  IF StillActive(c, pc)
                    THEN [c EXCEPT !.st.callStatus =
                                      Status("Connection lost...")]
                    ELSE c
             [] StateOf(pc) = "failed" ->
                  IF ~StillActive(c, pc) THEN c
                  ELSE IF pc.role = "caller"
                    THEN [c EXCEPT
                            !.st.callStatus = Status(
                               "Connection failed - check network"),
                            !.pcs[p].restarts = @ + 1]
                    ELSE [c EXCEPT
                            !.st.callStatus = Status(
                               "Connection failed - retrying..."),
                            !.pcs[p].retry = @ + 1]
             [] OTHER -> c

\* The next state change event of connection p is dispatched; a handler
\* that was set to null does not run.
OnStateChangeEvent(p) ==
  /\ Ready
  /\ pcs[p].events # <<>>
  /\ LET c == [Core EXCEPT !.pcs[p].events = Tail(@)]
     IN  SetCore(IF ~pcs[p].handlers THEN c
                 ELSE IF Head(pcs[p].events) = "connectionstatechange"
                   THEN ConnectionStateChange(c, p)
                   ELSE IceConnectionStateChange(c, p))
  /\ UNCHANGED <<tasks, es, sse, chat, poll, peer>>
  /\ ClientOnly
  /\ UNCHANGED ended

\* The setTimeout(..., 1000) of answerCall's ICE handler fires:
\* restartIce() if the state is still 'failed' and the call was not ended.
RestartIceTimeout(p) ==
  /\ Ready
  /\ pcs[p].retry > 0
  /\ pcs' = [pcs EXCEPT
       ![p].retry = @ - 1,
       ![p].restarts =
          IF StateOf(pcs[p]) = "failed" /\ ~ref.callEndedIntentionallyRef
            THEN @ + 1 ELSE @]
  /\ UNCHANGED <<st, ref, streams, tasks, timers, es, sse, chat, poll, peer>>
  /\ ClientOnly
  /\ UNCHANGED ended

\* The call session is active: callActive and a peer connection exists.
Active == st.callActive /\ Truthy(ref.connectionRef)

\* The call is established: the connection holds an offer and an answer.
Established ==
  /\ Active
  /\ Truthy(pcs[ref.connectionRef].local)
  /\ Truthy(pcs[ref.connectionRef].remote)

\* The history variable `ended` after an event of the given type is handled.
EndedAfter(type) ==
  IF type = "end_call" /\ Established THEN st.localStream ELSE ended

\* ------------------------------------------------------ the push transport
\* The EventSource is "none" before connectSSE has run, then as its
\* readyState says.  eventSourceRef.current holds it while it is
\* connecting or open.
maxReconnectAttempts == 5

RECURSIVE Pow2(_)
Pow2(n) == IF n = 0 THEN 1 ELSE 2 * Pow2(n - 1)

Min(a, b) == IF a < b THEN a ELSE b

\* Math.min(1000 * Math.pow(2, reconnectAttempts), 30000)
ReconnectDelay(reconnectAttempts) ==
  Min(1000 * Pow2(reconnectAttempts), 30000)

\* The request of the EventSource reaches GET /api/events: that of the
\* EventSource connectSSE makes when the effect runs, or that of one that
\* is connecting again.
ConnectSSE(c) ==
  /\ es = 0
  /\ sse.readyState \in {"none", "connecting"}
  /\ \A d \in ConnIds : d < c => conn[d].user # 0
  /\ EventsOpen(Me, c)
  /\ es' = c
  /\ sse' = [sse EXCEPT !.readyState = "connecting"]
  /\ UNCHANGED <<st, ref, streams, pcs, tasks, timers, chat, poll, peer>>
  /\ UNCHANGED ended

\* An onopen that keeps the count of reconnection attempts.
OnOpenNoReset ==
  /\ es # 0
  /\ sse.readyState = "connecting"
  /\ sse' = [sse EXCEPT !.readyState = "open"]
  /\ UNCHANGED <<st, ref, streams, pcs, tasks, timers, es, chat, poll, peer>>
  /\ ClientOnly
  /\ UNCHANGED ended

\* eventSource.onopen
OnOpen ==
  /\ es # 0
  /\ sse.readyState = "connecting"
  /\ sse' = [sse EXCEPT !.readyState = "open", !.reconnectAttempts = 0]
  /\ UNCHANGED <<st, ref, streams, pcs, tasks, timers, es, chat, poll, peer>>
  /\ ClientOnly
  /\ UNCHANGED ended

\* eventSource.onerror: the connection is lost.  With closed the browser
\* has given up (readyState CLOSED): the EventSource is closed,
\* eventSourceRef is cleared and a reconnect is scheduled unless
\* maxReconnectAttempts are used up.  Otherwise the browser connects again
\* by itself (readyState CONNECTING) and the handler does nothing.
OnError(closed) ==
  /\ sse.readyState \in {"connecting", "open"}
  /\ es' = 0
  /\ sse' =
       IF ~closed THEN [sse EXCEPT !.readyState = "connecting"]
       ELSE IF sse.reconnectAttempts < maxReconnectAttempts
         THEN [readyState |-> "closed",
               reconnectAttempts |-> sse.reconnectAttempts + 1,
               reconnectTimeout |->
                 ReconnectDelay(sse.reconnectAttempts + 1)]
         ELSE [sse EXCEPT !.readyState = "closed"]
  /\ UNCHANGED <<st, ref, streams, pcs, tasks, timers, chat, poll, peer>>
  /\ ClientOnly
  /\ UNCHANGED ended

\* The reconnectTimeout fires: connectSSE() makes a new EventSource.
ReconnectTimeout ==
  /\ sse.readyState = "closed"
  /\ sse.reconnectTimeout > 0
  /\ sse' = [sse EXCEPT !.readyState = "connecting", !.reconnectTimeout = 0]
  /\ UNCHANGED <<st, ref, streams, pcs, tasks, timers, es, chat, poll, peer>>
  /\ ClientOnly
  /\ UNCHANGED ended

\* eventSource.onmessage on the next frame of the connection.
OnMessageEvent ==
  /\ Ready
  /\ es # 0
  /\ sse.readyState = "open"
  /\ sink[es] # <<>>
  /\ ended' = EndedAfter(Head(sink[es]).type)
  /\ SetCore(OnMessage(Core, EffectClosure, Head(sink[es])))
  /\ chat' = IF Head(sink[es]).type = "receive_message"
               THEN [chat EXCEPT
                       !.messages =
                          ReceiveMessage(@, Entry(Head(sink[es]).message)),
                       !.applied =
                          @ \cup {<<Head(sink[es]).message.id, "push">>}]
               ELSE chat
  /\ sink' = [sink EXCEPT ![es] = Tail(@)]
  /\ UNCHANGED <<tasks, es, sse, poll, peer>>
  /\ NoLog
  /\ UNCHANGED <<now, clients, conn, callSignals>>

\* --------------------------------------------------- the polling transport
\* The interval with the faster rate only while both flags are set.
PollIntervalIdle ==
  IF ref.callActiveRef /\ ref.receivingCallRef THEN 500 ELSE 2000

\* The interval chosen by updatePollInterval, which intervalCheck calls
\* again every 1000 ms.
PollInterval == IF ref.callActiveRef \/ ref.receivingCallRef THEN 500 ELSE 2000

IntervalCheckMs == 1000

\* pollCalls() is called: once when the effect runs, then by the interval
\* callPollIntervalRef, which fires only if it is due before intervalCheck
\* clears and restarts it.  GET /api/calls/poll drains the queue.
PollCalls ==
  /\ Ready
  /\ ~poll.inFlight
  /\ ~poll.started \/ PollInterval <= IntervalCheckMs
  /\ poll' = [poll EXCEPT
       !.started = TRUE, !.inFlight = TRUE, !.since = 0,
       !.response = GetCallSignalsResult(callSignals, Me, now)]
  /\ CallsPoll(Me)
  /\ UNCHANGED <<st, ref, streams, pcs, tasks, timers, es, sse, chat, peer>>
  /\ UNCHANGED ended

\* The response arrives: signals.forEach starts.
PollResponse ==
  /\ Ready
  /\ poll.inFlight
  /\ poll' = [poll EXCEPT !.inFlight = FALSE, !.response = <<>>,
                          !.batch = poll.response]
  /\ UNCHANGED <<st, ref, streams, pcs, tasks, timers, es, sse, chat, peer>>
  /\ ClientOnly
  /\ UNCHANGED ended

\* One iteration of signals.forEach.
ForEachSignal ==
  /\ poll.batch # <<>>
  /\ ended' = EndedAfter(Head(poll.batch).type)
  /\ SetCore(OnSignal(Core, EffectClosure, Head(poll.batch)))
  /\ poll' = [poll EXCEPT !.batch = Tail(@)]
  /\ UNCHANGED <<tasks, es, sse, chat, peer>>
  /\ ClientOnly

\* ----------------------------------------------- the timers of the loop
\* Time passes, after the first pollCalls() of the effect, until the next
\* of callPollIntervalRef and intervalCheck is due.
Elapse ==
  LET d == Min(poll.due, poll.check)
  IN  /\ poll.started
      /\ d > 0
      /\ poll' = [poll EXCEPT !.due = @ - d, !.check = @ - d,
                              !.since = Min(@ + d, MaxSince)]
      /\ UNCHANGED <<st, ref, streams, pcs, tasks, timers, es, sse, chat,
                     peer>>
      /\ ClientOnly
      /\ UNCHANGED ended

\* intervalCheck fires: updatePollInterval() clears callPollIntervalRef and
\* sets it again with the interval the refs give.
IntervalCheck ==
  /\ Ready
  /\ poll.check = 0
  /\ poll' = [poll EXCEPT !.check = IntervalCheckMs, !.due = PollInterval,
                          !.every = PollInterval]
  /\ UNCHANGED <<st, ref, streams, pcs, tasks, timers, es, sse, chat, peer>>
  /\ ClientOnly
  /\ UNCHANGED ended

\* callPollIntervalRef fires: pollCalls().  One request is outstanding at
\* a time: a tick that falls on a pending request waits for its response.
PollTimerFires ==
  /\ Ready
  /\ poll.due = 0
  /\ ~poll.inFlight
  /\ poll' = [poll EXCEPT
       !.started = TRUE, !.inFlight = TRUE, !.since = 0, !.due = poll.every,
       !.response = GetCallSignalsResult(callSignals, Me, now)]
  /\ CallsPoll(Me)
  /\ UNCHANGED <<st, ref, streams, pcs, tasks, timers, es, sse, chat, peer>>
  /\ UNCHANGED ended

\* ------------------------------------------------------------- messages
\* The variables the message handlers leave alone.
CallState == <<st, ref, streams, pcs, tasks, timers, poll, peer, ended>>

\* sendMessage(e), up to the POST: the temporary entry is added.
SendMessage ==
  /\ Ready
  /\ Truthy(st.selectedUser)
  /\ chat' = [chat EXCEPT
       !.messages = Append(@, TempEntry(chat.temps + 1)),
       !.temps = @ + 1,
       !.sends = @ \cup {[temp |-> TempBase + chat.temps + 1,
                          to |-> st.selectedUser, message |-> 0]}]
  /\ UNCHANGED <<CallState, es, sse>>
  /\ ClientOnly

\* POST /api/message of sendMessage reaches the server: Message.create,
\* then sendEvent to the recipient and to the sender.
MessagePosted(s) ==
  /\ s.message = 0
  /\ PostMessage(Me, s.to)
  /\ chat' = [chat EXCEPT
       !.db = Append(@, Msg(nextId + 1, Me, s.to)),
       !.sends = (@ \ {s}) \cup {[s EXCEPT !.message = nextId + 1]}]
  /\ UNCHANGED <<CallState, es, sse>>

\* The response of the POST arrives: the temporary entry is replaced.
SendMessageThen(s) ==
  /\ Ready
  /\ s.message # 0
  /\ chat' = [chat EXCEPT
       !.messages = Acknowledge(@, s.temp, Entry(Msg(s.message, Me, s.to))),
       !.applied = @ \cup {<<s.message, "post">>},
       !.sends = @ \ {s}]
  /\ UNCHANGED <<CallState, es, sse>>
  /\ ClientOnly

\* Peer p sends a message to this user.
PeerMessage(p) ==
  /\ PostMessage(p, Me)
  /\ chat' = [chat EXCEPT !.db = Append(@, Msg(nextId + 1, p, Me))]
  /\ UNCHANGED <<CallState, es, sse>>

\* GET /api/messages/:u1/:u2 of request q reaches the server.
GetMessages(q) ==
  /\ ~q.served
  /\ chat' = [chat EXCEPT !.requests = (@ \ {q}) \cup
       {[q EXCEPT !.served = TRUE,
                  !.result = Conversation(chat.db, Me, q.with)]}]
  /\ UNCHANGED <<CallState, es, sse>>
  /\ ClientOnly

\* The response of the fetch made on selecting a conversation arrives.
FetchThen(q) ==
  /\ Ready
  /\ q.kind = "fetch" /\ q.served
  /\ chat' = [chat EXCEPT
       !.messages = MergeFetched(@, [k \in 1..Len(q.result) |->
                                       Entry(q.result[k])]),
       !.applied = @ \cup {<<q.result[k].id, "fetch">> :
                              k \in 1..Len(q.result)},
       !.requests = @ \ {q}]
  /\ UNCHANGED <<CallState, es, sse>>
  /\ ClientOnly

\* messagePollInterval fires: pollMessages sends its request.
PollMessages ==
  /\ Ready
  /\ chat.polling
  /\ chat' = [chat EXCEPT
       !.requests = @ \cup {Request("poll", st.selectedUser, chat.gets + 1)},
       !.gets = @ + 1]
  /\ UNCHANGED <<CallState, es, sse>>
  /\ ClientOnly

\* The response of pollMessages arrives.
PollMessagesThen(q) ==
  /\ Ready
  /\ q.kind = "poll" /\ q.served
  /\ chat' =
       IF q.result = <<>> THEN [chat EXCEPT !.requests = @ \ {q}]
       ELSE LET latest == Entry(q.result[Len(q.result)])
            IN  [chat EXCEPT
                   !.messages =
                      IF Truthy(chat.lastMessageId)
                           /\ latest.id # chat.lastMessageId
                        THEN AddLatest(@, latest) ELSE @,
                   !.applied =
                      IF Truthy(chat.lastMessageId)
                           /\ latest.id # chat.lastMessageId
                        THEN @ \cup {<<latest.id, "poll">>} ELSE @,
                   !.lastMessageId = latest.id,
                   !.requests = @ \ {q}]
  /\ UNCHANGED <<CallState, es, sse>>
  /\ ClientOnly

\* -------------------------------------------- the client and the server
Init == InitServer /\ InitClient

\* The steps of the client, of its peers and of the polling transport, with
\* at most maxSignals posts and maxPolls polls.
NextCall(maxSignals, maxPolls) ==
  \/ \E u \in Peers : SelectUser(u)
  \/ CallUser
  \/ AnswerCall
  \/ nextId < maxSignals /\ LeaveCall
  \/ \E t \in tasks : GumFail(t)
  \/ \E t \in tasks : GumOkCaller(t)
  \/ \E t \in tasks, throws \in BOOLEAN : GumOkAnswer(t, throws)
  \/ nextId < maxSignals /\ \E t \in tasks : CreateOfferThen(t)
  \/ nextId < maxSignals /\ \E t \in tasks : CreateAnswerThen(t)
  \/ nextId < maxSignals /\ \E p \in 1..Len(pcs) : OnIceCandidateEvent(p)
  \/ CleanupTimeout
  \/ drains < maxPolls /\ PollCalls
  \/ PollResponse
  \/ ForEachSignal
  \/ nextId < maxSignals /\ \E p \in Peers : PeerInitiate(p)
  \/ nextId < maxSignals /\ \E p \in Peers : PeerAnswer(p)
  \/ nextId < maxSignals /\ \E p \in Peers : PeerIceCandidate(p)
  \/ nextId < maxSignals /\ \E p \in Peers : PeerEnd(p)

\* The deployment where connectSSE returns at once (isVercel): the client
\* has the polling transport only.
NextPoll == NextCall(MaxSignals, MaxPolls)

SpecPoll == Init /\ [][NextPoll]_vars

\* The deployment with both transports.
Next ==
  \/ NextCall(MaxPushed, MaxPushPolls)
  \/ \E c \in ConnIds : ConnectSSE(c)
  \/ OnOpen
  \/ sse.reconnectAttempts < MaxErrors /\ OnError(TRUE)
  \/ OnMessageEvent

Spec == Init /\ [][Next]_vars

\* Calls whose connections change state: at most MaxConnSignals posts,
\* MaxConnPolls polls and MaxFailures failures of a connection.
NextConn ==
  \/ \E u \in Peers : SelectUser(u)
  \/ CallUser
  \/ AnswerCall
  \/ nextId < MaxConnSignals /\ LeaveCall
  \/ \E t \in tasks : GumOkCaller(t)
  \/ \E t \in tasks, throws \in BOOLEAN : GumOkAnswer(t, throws)
  \/ nextId < MaxConnSignals /\ \E t \in tasks : CreateOfferThen(t)
  \/ nextId < MaxConnSignals /\ \E t \in tasks : CreateAnswerThen(t)
  \/ CleanupTimeout
  \/ drains < MaxConnPolls /\ PollCalls
  \/ PollResponse
  \/ ForEachSignal
  \/ nextId < MaxConnSignals /\ \E p \in Peers : PeerInitiate(p)
  \/ nextId < MaxConnSignals /\ \E p \in Peers : PeerAnswer(p)
  \/ nextId < MaxConnSignals /\ \E p \in Peers : PeerEnd(p)
  \/ \E p \in 1..Len(pcs), state \in StateInputs :
        /\ state = "failed" => pcs[p].failures < MaxFailures
        /\ IceStateChanges(p, state)
  \/ \E p \in 1..Len(pcs) : OnStateChangeEvent(p)
  \/ \E p \in 1..Len(pcs) : RestartIceTimeout(p)

SpecConn == Init /\ [][NextConn]_vars

\* The message list with both transports: at most MaxMessages messages,
\* MaxSends calls of sendMessage and MaxGets requests for the conversation.
NextMsg ==
  \/ \E u \in Peers : SelectUser(u)
  \/ chat.temps < MaxSends /\ SendMessage
  \/ nextId < MaxMessages /\ \E s \in chat.sends : MessagePosted(s)
  \/ \E s \in chat.sends : SendMessageThen(s)
  \/ nextId < MaxMessages /\ \E p \in Peers : PeerMessage(p)
  \/ \E q \in chat.requests : GetMessages(q)
  \/ \E q \in chat.requests : FetchThen(q)
  \/ chat.gets < MaxGets /\ PollMessages
  \/ \E q \in chat.requests : PollMessagesThen(q)
  \/ \E c \in ConnIds : ConnectSSE(c)
  \/ OnOpen
  \/ sse.reconnectAttempts < MaxErrors /\ OnError(TRUE)
  \/ OnMessageEvent

SpecMsg == Init /\ [][NextMsg]_vars

\* The push subscription through its errors and reconnections, with
\* messages of the peers as traffic.
NextSSE ==
  \/ \E c \in ConnIds : ConnectSSE(c)
  \/ OnOpen
  \/ \E closed \in BOOLEAN : OnError(closed)
  \/ ReconnectTimeout
  \/ nextId < MaxMessages /\ \E p \in Peers : PeerMessage(p)
  \/ OnMessageEvent

SpecSSE == Init /\ [][NextSSE]_vars

\* The call polling loop on the clock: the first pollCalls(), the two
\* intervals, and calls of the peers that are rung and ended.
NextTimer ==
  \/ ~poll.started /\ PollCalls
  \/ PollResponse
  \/ ForEachSignal
  \/ Elapse
  \/ IntervalCheck
  \/ drains < MaxTimerPolls /\ PollTimerFires
  \/ CleanupTimeout
  \/ nextId < MaxTimerSignals /\ \E p \in Peers : PeerInitiate(p)
  \/ nextId < MaxTimerSignals /\ \E p \in Peers : PeerEnd(p)

SpecTimer == Init /\ [][NextTimer]_vars

\* The signal queue under the call endpoints, polls and the clock.
InitQ == InitServer /\ InitClient

NextQ ==
  \/ /\ nextId < MaxEvents
     /\ \E p \in Pairs : CallsInitiate(p[1], p[2], 1)
     /\ UNCHANGED clientVars
  \/ /\ nextId < MaxEvents
     /\ \E p \in Pairs : CallsAnswer(p[1], p[2], 1)
     /\ UNCHANGED clientVars
  \/ /\ nextId < MaxEvents
     /\ \E p \in Pairs : CallsIceCandidate(p[1], p[2], TRUE, Candidate(1))
     /\ UNCHANGED clientVars
  \/ /\ nextId < MaxEvents
     /\ \E p \in Pairs : CallsEnd(p[1], p[2])
     /\ UNCHANGED clientVars
  \/ /\ drains < MaxDrains
     /\ \E u \in Users : CallsPoll(u)
     /\ UNCHANGED clientVars
  \/ Tick /\ UNCHANGED clientVars

SpecQ == InitQ /\ [][NextQ]_vars

\* The dispatcher and the push registry under every REST handler.
InitD == InitServer /\ InitClient

NextD ==
  \/ (\E u \in Users, c \in ConnIds : EventsOpen(u, c))
       /\ UNCHANGED clientVars
  \/ (\E c \in ConnIds : KeepAlive(c)) /\ UNCHANGED clientVars
  \/ (\E c \in ConnIds : ReqClose(c)) /\ UNCHANGED clientVars
  \/ (\E c \in ConnIds : ReqError(c)) /\ UNCHANGED clientVars
  \/ (\E c \in ConnIds : StreamBreaks(c)) /\ UNCHANGED clientVars
  \/ /\ nextId < MaxPosts
     /\ \E p \in Pairs : PostMessage(p[1], p[2])
     /\ UNCHANGED clientVars
  \/ /\ nextId < MaxPosts
     /\ \E s \in Users : PostGroupMessage(s, Users)
     /\ UNCHANGED clientVars
  \/ /\ nextId < MaxPosts
     /\ \E p \in Pairs : FriendRequest(p[1], p[2])
     /\ UNCHANGED clientVars
  \/ /\ nextId < MaxPosts
     /\ \E p \in Pairs : FriendAccept(p[1], p[2])
     /\ UNCHANGED clientVars
  \/ /\ nextId < MaxPosts
     /\ \E s \in Users : GroupCreate(s, Users \ {s})
     /\ UNCHANGED clientVars
  \/ /\ nextId < MaxPosts
     /\ GroupDelete(Users)
     /\ UNCHANGED clientVars
  \/ /\ nextId < MaxPosts
     /\ \E p \in Pairs, t \in {"call_user", "end_call", "ice_candidate"} :
          PostSignal(p[1], p[2], t)
     /\ UNCHANGED clientVars
  \/ /\ nextId < MaxPosts
     /\ \E p \in Pairs : \E r \in {p[2], NullV} : CallsInitiate(p[1], r, 1)
     /\ UNCHANGED clientVars
  \/ /\ nextId < MaxPosts
     /\ \E p \in Pairs : CallsAnswer(p[1], p[2], 1)
     /\ UNCHANGED clientVars
  \/ /\ nextId < MaxPosts
     /\ \E p \in Pairs, pr \in BOOLEAN, c \in IceInputs :
          CallsIceCandidate(p[1], p[2], pr, c)
     /\ UNCHANGED clientVars
  \/ /\ nextId < MaxPosts
     /\ \E p \in Pairs : \E r \in {p[2], NullV} : CallsEnd(p[1], r)
     /\ UNCHANGED clientVars

SpecD == InitD /\ [][NextD]_vars

\* The signal queue under a burst of posts: after the first few posts,
\* every post is for a user whose queue is one of the longest.
Longest(u) ==
  \A v \in Users :
     Len(callSignals[CallSignalKey(u)]) >= Len(callSignals[CallSignalKey(v)])

NextCap ==
  \/ /\ nextId < MaxCapOthers
     /\ \E p \in Pairs : CallsInitiate(p[1], p[2], 1)
     /\ UNCHANGED clientVars
  \/ /\ nextId < MaxCapEvents
     /\ \E p \in Pairs :
          /\ nextId < MaxCapOthers \/ Longest(p[2])
          /\ CallsEnd(p[1], p[2])
     /\ UNCHANGED clientVars
  \/ /\ drains < MaxCapDrains
     /\ \E u \in Users : CallsPoll(u)
     /\ UNCHANGED clientVars

SpecCap == InitQ /\ [][NextCap]_vars

\* The transport endpoints under requests with any token.
NextAuth ==
  \/ (\E t \in Tokens, c \in ConnIds : EventsRequest(t, c))
       /\ UNCHANGED clientVars
  \/ /\ drains < MaxAuthDrains
     /\ \E t \in Tokens : PollRequest(t)
     /\ UNCHANGED clientVars
  \/ /\ nextId < MaxAuthPosts
     /\ \E t \in Tokens, u \in Users \cup {NullV} : InitiateRequest(t, u, 1)
     /\ UNCHANGED clientVars
  \/ /\ nextId < MaxAuthPosts
     /\ \E t \in Tokens, u \in Users \cup {NullV} : AnswerRequest(t, u, 1)
     /\ UNCHANGED clientVars
  \/ /\ nextId < MaxAuthPosts
     /\ \E t \in Tokens, u \in Users, pr \in BOOLEAN :
          IceCandidateRequest(t, u, pr, Candidate(1))
     /\ UNCHANGED clientVars
  \/ /\ nextId < MaxAuthPosts
     /\ \E t \in Tokens, u \in Users \cup {NullV} : EndRequest(t, u)
     /\ UNCHANGED clientVars
  \/ /\ nextId < MaxAuthPosts
     /\ \E t \in Tokens, u \in Users : SignalRequest(t, u, "call_user")
     /\ UNCHANGED clientVars

SpecAuth == InitD /\ [][NextAuth]_vars

\* The push registry under registrations, connection events and posts
\* that deliver to it.
NextPush ==
  \/ (\E u \in Users, c \in ConnIds : EventsOpen(u, c))
       /\ UNCHANGED clientVars
  \/ (\E c \in ConnIds : KeepAlive(c)) /\ UNCHANGED clientVars
  \/ (\E c \in ConnIds : ReqClose(c)) /\ UNCHANGED clientVars
  \/ (\E c \in ConnIds : ReqError(c)) /\ UNCHANGED clientVars
  \/ (\E c \in ConnIds : StreamBreaks(c)) /\ UNCHANGED clientVars
  \/ /\ nextId < MaxDelivers
     /\ \E p \in Pairs : PostMessage(p[1], p[2])
     /\ UNCHANGED clientVars
  \/ /\ nextId < MaxDelivers
     /\ \E p \in Pairs : CallsEnd(p[1], p[2])
     /\ UNCHANGED clientVars

SpecPush == InitD /\ [][NextPush]_vars

\* ======================================================================
\* Claims about the dispatcher (SpecD) and the signal queue (SpecQ).
\* ======================================================================
CallRoutes == {"/api/calls/initiate", "/api/calls/answer",
               "/api/calls/ice-candidate", "/api/calls/end"}

\* Event id of type t is an entry of the queue of user uid.
InQueue(uid, id, t) ==
  \E k \in 1..Len(callSignals[CallSignalKey(uid)]) :
     /\ callSignals[CallSignalKey(uid)][k].id = id
     /\ callSignals[CallSignalKey(uid)][k].type = t

InSomeQueue(id) ==
  \E key \in UserKeys : \E k \in 1..Len(callSignals[key]) :
     callSignals[key][k].id = id

LaterFor(i) == {j \in 1..Len(ev) : j > i /\ ev[j].uid = ev[i].uid}

\* C2: an entry enqueued for U (fewer than 50 later entries for U) stays in
\* the queue until U drains; the first drain by U less than 60 s after the
\* enqueue returns it; no drain 60 s or more after the enqueue returns it;
\* and no drain drops it unreturned while it is younger than 60 s.
C2_QueueTTL ==
  \A i \in 1..Len(ev) :
     (ev[i].uid # 0 /\ Cardinality(LaterFor(i)) < MAX_SIGNALS) =>
        /\ ~ev[i].polled => InSomeQueue(i)
        /\ (ev[i].polled /\ ev[i].firstYoung) => ev[i].firstGot
        /\ ~ev[i].late
        /\ ~ev[i].lost

\* An entry first drained between 30 s and 60 s after its enqueue: the one
\* drain so far returned it and removed it without marking it read.
C2_Witness ==
  \E i \in 1..Len(ev) :
     /\ ev[i].uid # 0
     /\ ev[i].firstYoung /\ ev[i].firstGot /\ ev[i].returned = 1
     /\ drains = 1
     /\ ~InSomeQueue(i)

C4_Isolation ==
  [][\A v \in Users :
       lastDrain'.uid = v =>
         /\ \A k \in 1..Len(lastDrain'.ids) : ev[lastDrain'.ids[k]].uid = v
         /\ \A u \in Users \ {v} :
              callSignals'[CallSignalKey(u)] = callSignals[CallSignalKey(u)]
    ]_vars

\* A drain that returned an entry while another user's queue held one.
C4_Witness ==
  /\ lastDrain.uid # 0
  /\ Len(lastDrain.ids) > 0
  /\ \E u \in Users \ {lastDrain.uid} :
        Len(callSignals[CallSignalKey(u)]) > 0

\* C5: a drain returns its entries in the order they were enqueued, and an
\* entry is never returned while an earlier entry of the same user, not yet
\* returned, is left waiting in the queue.
C5_Order ==
  /\ \A k \in 1..Len(lastDrain.ids) : \A l \in 1..Len(lastDrain.ids) :
        k < l => lastDrain.ids[k] < lastDrain.ids[l]
  /\ \A i \in 1..Len(ev) : \A j \in 1..Len(ev) :
        (i < j /\ ev[i].uid # 0 /\ ev[i].uid = ev[j].uid
           /\ ev[j].returned > 0 /\ ev[i].returned = 0)
        => ~InSomeQueue(i)

\* One drain returned two entries of the same user.
C5_Witness ==
  /\ Len(lastDrain.ids) = 2
  /\ lastDrain.ids[1] < lastDrain.ids[2]

\* ======================================================================
\* Claims about the call state machine of the client (Spec, SpecPoll).
\* ======================================================================
\* This step is eventSource.onmessage on a frame of the given type.
PushStep(type) ==
  /\ es # 0
  /\ sink[es] # <<>>
  /\ Head(sink[es]).type = type
  /\ sink'[es] = Tail(sink[es])

\* This step is the body of signals.forEach on a signal of the given type.
PollStep(type) ==
  /\ poll.batch # <<>>
  /\ Head(poll.batch).type = type
  /\ poll'.batch = Tail(poll.batch)

\* Event id is still on its way to the client over the polling transport.
Pending(id) ==
  \/ \E k \in 1..Len(callSignals[CallSignalKey(Me)]) :
        /\ callSignals[CallSignalKey(Me)][k].id = id
        /\ Unread(callSignals[CallSignalKey(Me)][k])
  \/ \E k \in 1..Len(poll.response) : poll.response[k].id = id
  \/ \E k \in 1..Len(poll.batch) : poll.batch[k].id = id

\* The client has answered the offer of peer p: its connection is open and
\* has that offer as remote description, so it can use p's candidates.
AnsweredOfferOf(p) ==
  /\ Truthy(ref.connectionRef)
  /\ ~pcs[ref.connectionRef].closed
  /\ peer[p].offer # 0
  /\ pcs[ref.connectionRef].remote = peer[p].offer

\* C6: when peer A posts three candidates after its call_user and before
\* the client (B) answers, all three are enqueued for B, and once B has
\* answered none of them is lost: each has been added to B's peer
\* connection, in the order posted, or is still on its way to B.
C6_EarlyCandidatesReachPeerConnection ==
  \A p \in Peers :
     (peer[p].early = 3) =>
       /\ \A k \in 1..3 : ev[peer[p].sent[k]].uid = Me
       /\ \/ ~AnsweredOfferOf(p)
          \/ /\ \A k \in 1..3 :
                   \/ Occurrences(pcs[ref.connectionRef].cands,
                                  peer[p].sent[k]) = 1
                   \/ Pending(peer[p].sent[k])
             /\ \A i \in 1..Len(pcs[ref.connectionRef].cands) :
                   \A j \in 1..Len(pcs[ref.connectionRef].cands) :
                      i < j => pcs[ref.connectionRef].cands[i]
                                 < pcs[ref.connectionRef].cands[j]

\* C7: a call_user event handled, by either transport, while the call
\* session is active (callActive and a peer connection exists) changes
\* none of caller, callerSignal, callTargetRef, receivingCall, callStatus.
C7_CallUserIgnoredWhileActive ==
  [][(Active /\ (PushStep("call_user") \/ PollStep("call_user"))) =>
       /\ st'.caller = st.caller
       /\ st'.callerSignal = st.callerSignal
       /\ ref'.callTargetRef = ref.callTargetRef
       /\ st'.receivingCall = st.receivingCall
       /\ st'.callStatus = st.callStatus
    ]_vars

\* The client is ringing: a caller is recorded and the call has not been
\* answered, declined or ended.
Ringing ==
  /\ st.receivingCall /\ ~st.callActive /\ ~st.showCallEnding
  /\ Truthy(st.caller)

\* C8: a call_user event handled while the client is ringing changes none
\* of caller, callerSignal and callTargetRef.
C8_FirstOfferWins ==
  [][(Ringing /\ (PushStep("call_user") \/ PollStep("call_user"))) =>
       /\ st'.caller = st.caller
       /\ st'.callerSignal = st.callerSignal
       /\ ref'.callTargetRef = ref.callTargetRef
    ]_vars

\* The client is calling: its connection holds the offer it has posted and
\* no remote description yet.
Calling ==
  /\ Active /\ ~st.showCallEnding
  /\ ~pcs[ref.connectionRef].closed
  /\ Truthy(pcs[ref.connectionRef].local)
  /\ ~Truthy(pcs[ref.connectionRef].remote)

\* C9: a call_accepted event handled, by either transport, while the
\* client is calling sets the answer it carries as the remote description
\* of the connection, and the call session is active afterwards.
C9_AnswerApplied ==
  [][(Calling /\ (PushStep("call_accepted") \/ PollStep("call_accepted")))
       => /\ Active'
          /\ pcs'[ref.connectionRef].remote =
               IF PollStep("call_accepted")
                 THEN Head(poll.batch).data.sdp
                 ELSE Head(sink[es]).data.sdp
    ]_vars

\* The call session is idle: callActive and receivingCall are false and no
\* peer connection is held.
Idle == ~st.callActive /\ ~st.receivingCall /\ ~Truthy(ref.connectionRef)

\* C10: once a client that handled end_call in an active call (callActive,
\* a peer connection with offer and answer) is idle, the tracks of the
\* local stream of that call have been stopped and the peer connections
\* are closed.
C10_EndCallReleasesMedia ==
  (Truthy(ended) /\ Idle) =>
     /\ ~streams[ended]
     /\ \A p \in 1..Len(pcs) : pcs[p].closed

\* This step handles an end_call event, by either transport.
EndCallStep == PushStep("end_call") \/ PollStep("end_call")

\* The ring has been ended by the caller: the call banner shows the ending
\* status until the 3 s timeout fires.
RingEnded == st.receivingCall /\ ~st.callActive /\ st.showCallEnding

\* The calls of answerCall whose getUserMedia is pending.
AnswersStarted == {t \in tasks : t.kind = "gum" /\ t.role = "answer"}

\* C11: an end_call event handled while the client is ringing shows an
\* ended/declined status, schedules the reset and creates no peer
\* connection; while that status is shown the call cannot be answered
\* (answerCall is not called, callActive stays false), and the
\* timeout leaves the client with callActive and receivingCall false, no
\* caller and no status.
C11_HangUpWhileRinging ==
  [][/\ (Ringing /\ EndCallStep) =>
          /\ RingEnded'
          /\ st'.callStatus.text \in
                {"Call declined by caller", "Call ended by other party"}
          /\ timers' = timers + 1
          /\ Len(pcs') = Len(pcs)
          /\ tasks' = tasks
     /\ RingEnded =>
          /\ AnswersStarted' \subseteq AnswersStarted
          /\ ~st'.callActive
          /\ (timers' < timers) =>
                /\ ~st'.receivingCall
                /\ st'.caller = NullV
                /\ st'.callStatus = Status("")
    ]_vars

\* The caller hung up before this client answered, and call_user and
\* end_call came in the one poll made so far: the ring is ended with no
\* peer connection.
C11_Witness ==
  /\ RingEnded
  /\ es = 0 /\ drains = 1 /\ poll.batch = <<>>
  /\ pcs = <<>> /\ tasks = {}
  /\ st.callStatus.text = "Call ended by other party"

\* The push channel has dropped: the EventSource is closed and
\* eventSourceRef is cleared.
Dropped == sse.readyState = "closed" /\ es = 0

\* The client is in a call: calling, ringing or active.
InCall == st.callActive \/ st.receivingCall

C13_MessagePollingUnlessPushOpen ==
  (Truthy(st.selectedUser) /\ ~chat.polling) => sse.readyState = "open"

\* C14: the call polling loop calls pollCalls every 500 ms in a call and
\* every 2000 ms otherwise, and re-evaluating the interval cancels no poll
\* that is due: never more than 2000 ms pass without a call of pollCalls.
C14_PollsRecur == ~poll.inFlight => poll.since <= 2000

\* C15: while a reconnect of the push subscription is scheduled, its delay
\* is min(1000 * 2^(k-1), 30000) ms, where k counts the reconnection
\* attempts since the last successful open: 1 s for the first attempt.
C15_ReconnectDelay ==
  sse.reconnectTimeout > 0 =>
    sse.reconnectTimeout =
      Min(1000 * Pow2(sse.reconnectAttempts - 1), 30000)

\* C16: the attempt counter never exceeds maxReconnectAttempts; a reconnect
\* timer is set only by an error that leaves the subscription closed and
\* only while fewer than 5 attempts were made since the last open, each
\* counting one attempt; a subscription that is closed with no timer
\* pending stays so (polling only); and a successful open resets the
\* counter to 0.
TimerSet ==
  sse'.reconnectTimeout > 0 /\ sse'.reconnectTimeout # sse.reconnectTimeout
C16_ReconnectBound ==
  /\ [](sse.reconnectAttempts <= maxReconnectAttempts)
  /\ [][/\ TimerSet =>
             /\ sse.readyState # "closed"
             /\ sse'.readyState = "closed"
             /\ sse.reconnectAttempts < maxReconnectAttempts
             /\ sse'.reconnectAttempts = sse.reconnectAttempts + 1
        /\ (sse.readyState = "closed" /\ sse.reconnectTimeout = 0) =>
             sse' = sse
        /\ (sse.readyState # "open" /\ sse'.readyState = "open") =>
             sse'.reconnectAttempts = 0
        /\ sse'.readyState # "closed" =>
             sse'.reconnectAttempts <= sse.reconnectAttempts
       ]_vars
C16_Witness ==
  /\ sse.readyState = "closed"
  /\ sse.reconnectAttempts = maxReconnectAttempts
  /\ sse.reconnectTimeout = 0
  /\ es = 0

\* C17: the message list never holds two entries with the same id, however
\* the push event, the fetch of the conversation, the message poll, the
\* optimistic entry of sendMessage and the response of its POST interleave.
C17_NoDuplicateIds ==
  \A i, j \in 1..Len(chat.messages) :
    chat.messages[i].id = chat.messages[j].id => i = j
\* A message sent by this client that was given to the list by its push
\* event, by the message poll, by the fetch and by the response of the
\* POST, and is in the list once.
C17_Witness ==
  \E m \in 1..Len(chat.db) :
    /\ {<<m, "push">>, <<m, "poll">>, <<m, "fetch">>, <<m, "post">>}
         \subseteq chat.applied
    /\ Cardinality({k \in 1..Len(chat.messages) : chat.messages[k].id = m})
         = 1
    /\ chat.sends = {}

\* C18: when the next push frame and an entry of the client's signal queue
\* come from the same dispatch of a call event, eventSource.onmessage on
\* the frame and the body of pollCalls on the entry change the client's
\* state in the same way.
SameDispatch(frame, signal) ==
  /\ frame.type \in {"call_user", "call_accepted", "ice_candidate", "end_call"}
  /\ signal.type = frame.type
  /\ signal.data = frame.data
C18_TransportsAgree ==
  (Ready /\ es # 0 /\ sse.readyState = "open" /\ sink[es] # <<>>) =>
    \A k \in 1..Len(callSignals[CallSignalKey(Me)]) :
      SameDispatch(Head(sink[es]), callSignals[CallSignalKey(Me)][k]) =>
        OnMessage(Core, EffectClosure, Head(sink[es]))
          = OnSignal(Core, EffectClosure, callSignals[CallSignalKey(Me)][k])

\* C19: while the client is calling, ringing or in a call, handling an
\* ice_candidate event adds its candidate to the candidates of the peer
\* connection of the call, unless the candidate is malformed, and then the
\* call state is left as it is.
C19_CandidateApplied ==
  [][(InCall /\ ~st.showCallEnding /\ PollStep("ice_candidate")) =>
       IF InvalidFormat(Head(poll.batch).data)
         THEN st' = st /\ ref' = ref /\ pcs' = pcs
         ELSE /\ Truthy(ref.connectionRef)
              /\ pcs'[ref.connectionRef].cands =
                   Append(pcs[ref.connectionRef].cands,
                          Head(poll.batch).data.candidate)
    ]_vars

\* C20: when a pending step of callUser or answerCall (getUserMedia,
\* createOffer, createAnswer) completes after its call was terminated by
\* leaveCall or by end_call, it creates and stores no peer connection,
\* posts no event and does not make the call active.
CallOver == st.showCallEnding \/ ~st.callActive
StepCompletes == \E t \in tasks : t \notin tasks'
C20_CancelledStepDiscarded ==
  [][(CallOver /\ StepCompletes) =>
       /\ Len(pcs') = Len(pcs)
       /\ ref'.connectionRef = ref.connectionRef
       /\ nextId' = nextId
       /\ CallOver'
    ]_vars

\* C21: whenever the call session is idle again, with no step of callUser
\* or answerCall pending and no reset timer running, every track of every
\* stream acquired for a call has been stopped.
AtRest == Idle /\ ~st.showCallEnding /\ timers = 0 /\ tasks = {}
C21_MediaReleased ==
  AtRest => \A k \in 1..Len(streams) : ~streams[k]

\* C22: when getUserMedia of callUser or answerCall rejects, the session
\* is idle at once: callActive and receivingCall are false, the status and
\* callTargetRef are cleared, no peer connection is created or held,
\* nothing is posted, and getUserMedia is not called again.
GumRejects ==
  /\ Len(streams') = Len(streams)
  /\ \E t \in tasks : t.kind = "gum" /\ t \notin tasks'
C22_MediaFailureAborts ==
  [][GumRejects =>
       /\ ~st'.callActive /\ ~st'.receivingCall /\ ~st'.showCallEnding
       /\ st'.callStatus = Status("")
       /\ ref'.callTargetRef = NullV
       /\ ~ref'.callActiveRef /\ ~ref'.receivingCallRef
       /\ ~Truthy(ref'.connectionRef)
       /\ Len(pcs') = Len(pcs)
       /\ nextId' = nextId
       /\ tasks' \subseteq tasks
    ]_vars
\* getUserMedia has rejected after an incoming call was recorded: the
\* client is idle with no stream and no connection while the peer that
\* called is still calling.
C22_Witness ==
  /\ AtRest /\ streams = <<>> /\ pcs = <<>>
  /\ Truthy(st.callerSignal) /\ st.caller = NullV
  /\ \E p \in Peers : peer[p].phase = "calling"

\* This step runs a connection state handler of connection p, or the
\* restart timer set by one.
CallbackStep(p) ==
  \/ pcs[p].events # <<>> /\ pcs'[p].events = Tail(pcs[p].events)
  \/ pcs'[p].retry < pcs[p].retry
\* Termination has begun and its timer has not reset the call yet.
Terminating == ref.callEndedIntentionallyRef /\ st.showCallEnding

\* C23 as stated: once callEndedIntentionallyRef is set, no connection
\* state callback changes the status or restarts ICE, and the status set
\* by the termination stays as it is until the reset to idle.
C23_TerminalStatusStays ==
  [][/\ \A p \in 1..Len(pcs) :
          (ref.callEndedIntentionallyRef /\ CallbackStep(p)) =>
             /\ st'.callStatus = st.callStatus
             /\ pcs'[p].restarts = pcs[p].restarts
     /\ (Terminating /\ timers' = timers) => st'.callStatus = st.callStatus
    ]_vars

\* C23 amended: once callEndedIntentionallyRef is set, no
\* onconnectionstatechange or oniceconnectionstatechange handler, and no
\* restart timer of one, changes the status, restarts ICE or schedules a
\* restart.
C23_CallbacksSuppressed ==
  [][\A p \in 1..Len(pcs) :
       (ref.callEndedIntentionallyRef /\ CallbackStep(p)) =>
          /\ st'.callStatus = st.callStatus
          /\ pcs'[p].restarts = pcs[p].restarts
          /\ pcs'[p].retry <= pcs[p].retry
    ]_vars
\* State change events of a connection whose handlers are attached were
\* handled while the call was ending: a failure was reported, the events
\* are gone, and ICE was not restarted.
C23_Witness ==
  /\ Terminating
  /\ \E p \in 1..Len(pcs) :
        /\ pcs[p].handlers /\ ~pcs[p].closed
        /\ pcs[p].failures = 1 /\ pcs[p].events = <<>>
        /\ pcs[p].restarts = 0 /\ pcs[p].retry = 0
  /\ st.callStatus.text \in {"Call ended", "Call declined"}

\* This step is leaveCall(): the End or Decline button was pressed.
HangUpStep ==
  /\ InCall /\ ~st.showCallEnding
  /\ st'.showCallEnding
  /\ st'.callStatus.text \in {"Call ended", "Call declined"}
\* The dispatches of a step are one end_call, to user p, and it is
\* appended to the signal queue of p and of nobody else.
OneEndCallTo(p) ==
  /\ {d.type : d \in lastSent'} = {"end_call"}
  /\ {d.uid : d \in lastSent'} = {p}
  /\ nextId' = nextId + 1
  /\ \A u \in Users :
        LET q == callSignals[CallSignalKey(u)]
            r == callSignals'[CallSignalKey(u)]
        IN  IF u = p
              THEN /\ Len(r) = Len(q) + 1
                   /\ SubSeq(r, 1, Len(q)) = q
                   /\ r[Len(r)].type = "end_call"
              ELSE r = q

\* C24: when the user hangs up or declines a call with peer p (p has
\* called this client, or was called by it, and has not ended the call),
\* exactly one end_call is posted and it is for p, whoever is selected.
C24_EndCallToCachedPeer ==
  [][\A p \in Peers :
       (HangUpStep /\ peer[p].phase # "idle") => OneEndCallTo(p)
    ]_vars

\* The failures of connection p have been handled: its state change
\* events were dispatched and no restart timer is pending.
FailuresHandled(p) ==
  /\ pcs[p].handlers /\ ~pcs[p].closed
  /\ pcs[p].events = <<>> /\ pcs[p].retry = 0

\* C25: for the connection of a call that is still active and was not
\* ended, once its failures have been handled ICE was restarted once for
\* each failure, and the call is still active.
C25_OneRestartPerFailure ==
  \A p \in 1..Len(pcs) :
     ( /\ ref.connectionRef = p /\ InCall
       /\ ~ref.callEndedIntentionallyRef /\ ~st.showCallEnding
       /\ FailuresHandled(p) )
     => pcs[p].restarts = pcs[p].failures

\* C26: registering connection c for user u always stores c for u,
\* replacing whatever was stored; a stored connection is only ever
\* replaced by a connection that is registering in that step; and a
\* delivery that succeeds writes one frame to the connection stored for
\* its target and to no other connection.
C26_LastRegistrationWins ==
  [][/\ \A u \in Users, c \in ConnIds :
          (conn[c].user = 0 /\ conn'[c].user = u) => clients'[ToStr(u)] = c
     /\ \A k \in UserKeys :
          (clients'[k] # clients[k] /\ clients'[k] # 0) =>
             /\ conn[clients'[k]].user = 0
             /\ ToStr(conn'[clients'[k]].user) = k
     /\ \A c \in ConnIds :
          Len(sink'[c]) > Len(sink[c]) =>
             \E d \in lastSent' :
                d.outcome = "written" /\ clients[ToStr(d.uid)] = c
     /\ \A d \in lastSent' :
          d.outcome = "written" =>
             LET c == clients[ToStr(d.uid)]
             IN  /\ Len(sink'[c]) = Len(sink[c]) + 1
                 /\ SubSeq(sink'[c], 1, Len(sink[c])) = sink[c]
                 /\ sink'[c][Len(sink'[c])].type = d.type
    ]_vars
\* Two connections of one user are open and unbroken, the second is the
\* one stored, and a delivery to the user has just been written to it and
\* nothing to the first.
C26_Witness ==
  \E u \in Users : \E c1, c2 \in ConnIds :
     /\ c1 # c2
     /\ conn[c1].user = u /\ conn[c1].open /\ ~conn[c1].broken
     /\ conn[c2].user = u /\ conn[c2].open /\ ~conn[c2].broken
     /\ clients[ToStr(u)] = c2
     /\ sink[c1] = <<>> /\ sink[c2] # <<>>
     /\ \E d \in lastSent : d.uid = u /\ d.outcome = "written"

\* C27: a delivery returns true exactly when a connection is stored for
\* the target and its stream is not broken; a delivery that returns false
\* writes nothing and leaves no connection stored for the target; the
\* handler that delivered still completes (a call endpoint enqueues the
\* event, the message endpoint delivers to both parties); and a connection
\* whose heartbeat stops has no registration left for its user.
C27_DeliverResult ==
  [][/\ \A d \in lastSent' :
          LET k == ToStr(d.uid)
              c == clients[k]
          IN  /\ (d.outcome = "written") <=> (c # 0 /\ ~conn[c].broken)
              /\ (d.outcome = "failed") <=> (c # 0 /\ conn[c].broken)
              /\ d.outcome # "written" =>
                   /\ clients'[k] = 0
                   /\ \A c2 \in ConnIds :
                         conn[c2].user = d.uid => sink'[c2] = sink[c2]
              /\ d.route \in CallRoutes =>
                   \E i \in 1..Len(callSignals'[k]) :
                      callSignals'[k][i].id = d.id
              /\ d.route = "/api/message" => Cardinality(lastSent') = 2
     /\ \A c \in ConnIds :
          (conn[c].timer /\ ~conn'[c].timer) =>
             clients'[ToStr(conn[c].user)] = 0
    ]_vars
\* The second post delivers to a user whose only connection is broken and
\* still thought open by its heartbeat: an earlier delivery failed on it
\* and removed it, so this one finds no connection and writes nothing.
C27_Witness ==
  /\ nextId = 2
  /\ \E d \in lastSent :
        /\ d.id = 2 /\ d.outcome = "none"
        /\ \E c \in ConnIds :
              /\ conn[c].user = d.uid
              /\ conn[c].open /\ conn[c].broken /\ conn[c].timer
              /\ sink[c] = <<>>
              /\ \A c2 \in ConnIds \ {c} : conn[c2].user # d.uid

\* C28: an enqueue leaves at most 50 entries in the recipient's queue:
\* the new entry is the last one, the entries before it are the newest
\* ones of the queue as it was, in the same order, and an entry is dropped
\* only when the queue already held 50.
C28_QueueCap ==
  [][\A u \in Users :
       LET q == callSignals[CallSignalKey(u)]
           r == callSignals'[CallSignalKey(u)]
       IN  (\E d \in lastSent' : d.uid = u /\ d.route \in CallRoutes) =>
              /\ Len(r) <= 50
              /\ Len(r) = IF Len(q) < 50 THEN Len(q) + 1 ELSE 50
              /\ r[Len(r)].id = nextId'
              /\ \A i \in 1..(Len(r) - 1) :
                    r[i] = q[Len(q) - (Len(r) - 1) + i]
    ]_vars
\* A queue holds 50 entries, the last is the newest event and the first
\* event, enqueued for the same user and never polled, is no longer in it.
C28_Witness ==
  \E u \in Users :
     LET q == callSignals[CallSignalKey(u)]
     IN  /\ Len(q) = 50
         /\ q[50].id = nextId
         /\ ev[1].uid = u /\ ~ev[1].polled
         /\ \A i \in 1..50 : q[i].id # 1

\* C30: a step that ends the heartbeat of connection c (the close or the
\* error of its request, or a heartbeat write that failed) leaves the
\* registration of its user as it is when that registration is held by
\* another connection.
C30_OwnConnectionOnly ==
  [][\A c \in ConnIds :
       ( /\ conn[c].user # 0
         /\ conn[c].timer /\ ~conn'[c].timer
         /\ clients[ToStr(conn[c].user)] # c )
       => clients'[ToStr(conn[c].user)] = clients[ToStr(conn[c].user)]
    ]_vars

\* This step answered a request whose token is missing or is not accepted
\* by jwt.verify.
Unauthenticated == ~lastRes'.cred /\ lastRes'.status # 0
\* The step left the registry, the streams and the queues as they were,
\* dispatched nothing and drained nothing.
NoEffect ==
  /\ UNCHANGED <<clients, conn, sink, callSignals>>
  /\ lastSent' = {}
  /\ lastDrain' = NoDrain

\* The part of C29 about effects alone: such a request changes nothing.
UnauthenticatedHasNoEffect == [][Unauthenticated => NoEffect]_vars

\* C29: a request to a transport endpoint with a missing or invalid token
\* is answered with an error status, and it registers nothing, returns
\* and marks no queue entry, and dispatches and enqueues nothing.
C29_FailClosed ==
  [][Unauthenticated => (lastRes'.status >= 400 /\ NoEffect)]_vars

\* The client rings for the call that peer p is placing now: the offer it
\* holds is the one p posted last, and p has not ended that call.
RingingFor(p) ==
  /\ st.receivingCall /\ ~st.callActive
  /\ peer[p].phase = "calling"
  /\ st.caller = p /\ ref.callTargetRef = p
  /\ st.callerSignal = peer[p].offer

\* C31: when the 3 s timer of a termination fires while the client rings
\* for a call placed after that termination, receivingCall, the caller,
\* callTargetRef and callEndedIntentionallyRef stay as they are.
C31_TimerSparesNewCall ==
  [][\A p \in Peers :
       (timers' < timers /\ RingingFor(p)) =>
          /\ st'.receivingCall /\ ref'.receivingCallRef
          /\ st'.caller = p /\ ref'.callTargetRef = p
          /\ ref'.callEndedIntentionallyRef = ref.callEndedIntentionallyRef
    ]_vars

\* No per-call state is left: no connection is held, no call target is
\* cached, no caller is recorded, the ended-intentionally flag is down and
\* the status is empty.
PerCallStateCleared ==
  /\ ~Truthy(ref.connectionRef)
  /\ ~Truthy(ref.callTargetRef)
  /\ ~Truthy(st.caller)
  /\ ~ref.callEndedIntentionallyRef
  /\ st.callStatus = Status("")

\* C32: whenever callActive and receivingCall are false, no ending banner
\* is shown, no reset timer is pending and no step of callUser or
\* answerCall is outstanding, all per-call state is cleared.
C32_IdleIsClean ==
  (~st.callActive /\ ~st.receivingCall /\ ~st.showCallEnding
     /\ timers = 0 /\ tasks = {})
  => PerCallStateCleared

\* This step handles a call_accepted, taken from the batch of a poll or
\* from the push channel.
HandlesCallAccepted ==
  \/ /\ poll.batch # <<>>
     /\ Head(poll.batch).type = "call_accepted"
     /\ poll'.batch = Tail(poll.batch)
  \/ /\ es # 0 /\ sink[es] # <<>>
     /\ Head(sink[es]).type = "call_accepted"
     /\ sink'[es] = Tail(sink[es])

HandlesEndCall ==
  \/ /\ poll.batch # <<>>
     /\ Head(poll.batch).type = "end_call"
     /\ poll'.batch = Tail(poll.batch)
  \/ /\ es # 0 /\ sink[es] # <<>>
     /\ Head(sink[es]).type = "end_call"
     /\ sink'[es] = Tail(sink[es])
\* The step posts nothing: no dispatch, no new event, no queue grows.
NothingSent ==
  /\ lastSent' = {}
  /\ nextId' = nextId
  /\ \A u \in Users :
        Len(callSignals'[CallSignalKey(u)]) <= Len(callSignals[CallSignalKey(u)])
\* No call, no ringing and no ending banner.
SessionIdle == ~st.callActive /\ ~st.receivingCall /\ ~st.showCallEnding

\* The part of C34 about the echo alone: handling an end_call posts
\* nothing, and a hang-up or decline posts one end_call.
EndCallNotEchoed ==
  [][/\ HandlesEndCall => NothingSent
     /\ HangUpStep => \E p \in Peers : OneEndCallTo(p)
    ]_vars

\* C34: handling an end_call posts nothing, a hang-up or decline posts
\* exactly one end_call, and an end_call handled while the session is
\* idle leaves it idle.
C34_EndCallStops ==
  [][/\ HandlesEndCall => NothingSent
     /\ HangUpStep => \E p \in Peers : OneEndCallTo(p)
     /\ (HandlesEndCall /\ SessionIdle) =>
          (~st'.callActive /\ ~st'.receivingCall /\ ~st'.showCallEnding)
    ]_vars

\* An ice_candidate event without the three candidate fields, or with no
\* candidate string, no sdpMid and no sdpMLineIndex.
IceFields(data) == {"candidate", "sdpMid", "sdpMLineIndex"} \subseteq DOMAIN data

MalformedIce(e) ==
  e.type = "ice_candidate" /\ (~IceFields(e.data) \/ InvalidCandidate(e.data))

\* The response is { success: true } and no queue and no sink changed.
SucceedsQuietly ==
  /\ lastRes' = Res(TRUE, 200)
  /\ lastSent' = {}
  /\ callSignals' = callSignals
  /\ sink' = sink

\* A post to the ice-candidate endpoint whose candidate is absent or has no
\* candidate string, no sdpMid and no sdpMLineIndex succeeds without
\* changing any queue or sink, and so does an end-call post without a
\* target; every ice_candidate event these endpoints push or enqueue has
\* one of the three fields.
IceEndpointDropsMalformed ==
  [][/\ \A p \in Pairs, pr \in BOOLEAN, c \in IceInputs :
          CallsIceCandidate(p[1], p[2], pr, c) =>
            IF ~pr \/ InvalidCandidate(ValidCandidate(c))
              THEN SucceedsQuietly
              ELSE \A u \in Users :
                     \A k \in 1..Len(callSignals'[CallSignalKey(u)]) :
                        ~MalformedIce(callSignals'[CallSignalKey(u)][k])
     /\ \A u \in Users : CallsEnd(u, NullV) => SucceedsQuietly]_vars

\* C35: the server never pushes or enqueues an ice_candidate event that is
\* absent or has no candidate string, no sdpMid and no sdpMLineIndex: no
\* sink and no queue ever holds one, a post of one succeeds without changing
\* any queue or sink, and an end-call post without a target dispatches and
\* enqueues nothing.
C35_MalformedIceDropped ==
  [][/\ \A c \in ConnIds : \A k \in 1..Len(sink'[c]) :
          ~MalformedIce(sink'[c][k])
     /\ \A u \in Users : \A k \in 1..Len(callSignals'[CallSignalKey(u)]) :
          ~MalformedIce(callSignals'[CallSignalKey(u)][k])
     /\ \A p \in Pairs, pr \in BOOLEAN, c \in IceInputs :
          (CallsIceCandidate(p[1], p[2], pr, c)
             /\ (~pr \/ InvalidCandidate(ValidCandidate(c))))
            => SucceedsQuietly
     /\ \A u \in Users : CallsEnd(u, NullV) => SucceedsQuietly]_vars

\* u's queue, before and after the step.
QueueOf(u) == callSignals[CallSignalKey(u)]
QueueAfter(u) == callSignals'[CallSignalKey(u)]

\* The step is a drain by u (getCallSignals(u) ran).
DrainStep(u) == lastDrain'.uid = u

Returned(i) == \E k \in 1..Len(lastDrain'.ids) : lastDrain'.ids[k] = i

StoredAfter(u, i) == \E k \in 1..Len(QueueAfter(u)) : QueueAfter(u)[k].id = i

\* After a drain by u: nothing enqueued 60 s or more ago is left, and no
\* read entry whose readAt is 10 s or more in the past.
SweptAfterDrain(u) ==
  \A k \in 1..Len(QueueAfter(u)) :
     LET s == QueueAfter(u)[k]
     IN  /\ (now' - s.timestamp) < SIGNAL_TTL
         /\ s.read => (now' - s.readAt) < READ_CLEAR_AGE

\* An entry that was read before the step is not returned by it, and stays
\* stored, unchanged, unless the step is a drain by u 10 s or more after
\* its readAt.
ReadEntriesRetained(u) ==
  \A k \in 1..Len(QueueOf(u)) :
     LET s == QueueOf(u)[k]
     IN  s.read =>
           /\ DrainStep(u) => ~Returned(s.id)
           /\ (~DrainStep(u) \/ (now' - s.readAt) < READ_CLEAR_AGE) =>
                \E j \in 1..Len(QueueAfter(u)) : QueueAfter(u)[j] = s

\* Every entry the drain returned is stored, read, with readAt = the time
\* of the drain.
ReturnedMarkedRead(u) ==
  \A k \in 1..Len(QueueOf(u)) :
     Returned(QueueOf(u)[k].id) =>
       \E j \in 1..Len(QueueAfter(u)) :
          /\ QueueAfter(u)[j].id = QueueOf(u)[k].id
          /\ QueueAfter(u)[j].read
          /\ QueueAfter(u)[j].readAt = now'

\* Every entry the drain returned that was enqueued less than 30 s before
\* is stored, read, with readAt = the time of the drain; one enqueued 30 s
\* or more before is returned unmarked and removed by the same drain.
ReturnedMarkedOrCleared(u) ==
  \A k \in 1..Len(QueueOf(u)) :
     LET s == QueueOf(u)[k]
     IN  Returned(s.id) =>
           IF (now' - s.timestamp) < MAX_AGE_FOR_READ
             THEN \E j \in 1..Len(QueueAfter(u)) :
                     /\ QueueAfter(u)[j].id = s.id
                     /\ QueueAfter(u)[j].read
                     /\ QueueAfter(u)[j].readAt = now'
             ELSE ~StoredAfter(u, s.id)

====
